---- MODULE Spec2Model ----
(***************************************************************************)
(* A model of the tuber entity-component store.                            *)
(*                                                                         *)
(* Two stores live in crates/tuber-ecs:                                    *)
(*   - the archetype store (lib.rs, archetype.rs, component_bundle.rs):    *)
(*     one raw byte buffer per signature, one column per component type;   *)
(*   - the bitset-column store (ecs.rs, query.rs, system.rs, bitset.rs):   *)
(*     one Vec<Option<RefCell<..>>> and one presence bitset per type.      *)
(* SpecArch drives the first, SpecCols the second.  SpecInput models       *)
(* crates/tuber-core's input::InputState.                                  *)
(***************************************************************************)
EXTENDS Integers, Sequences, FiniteSets, Bags, TLC

VARIABLES
    archetype_store,   \* Ecs.archetype_store: signature -> Archetype
    next_entity,       \* Ecs.next_entity
    heap,              \* the allocator: every buffer ever handed out by alloc
    returned,          \* history: the ids insert_one returned, in call order
    inserted,          \* history: id -> the signature and bytes given to insert_one
    changed,           \* history: <<id, position, field>> -> bytes written through entity_mut
    components,        \* ecs::Ecs.components: TypeId -> ComponentStore
    shared_resources,  \* ecs::Ecs.shared_resources: TypeId -> RefCell
    next_index,        \* ecs::Ecs.next_index
    live,              \* the references the caller holds: a bag of [target, mode]
    defined,           \* history: what the k-th ecs::Ecs::insert was given, less what
                       \* delete_by_query and remove_component were asked to take away
    systems,           \* SystemBundle.systems, each callable named by what it does
    steps,             \* history: the number of SystemBundle::step calls made
    bit_array,         \* a [u64; 1024] driven through the BitSet trait
    bit_word,          \* a u64 driven through the BitSet trait
    bit_calls,         \* history: per bitset, index -> the last call made on it
    align_args,        \* the <<value, alignment>> align_value was last called with
    align_result,      \* what that call returned
    input_state,       \* tuber-core input::InputState
    panicked,          \* the program was terminated by a panic
    lastOp             \* the last operation that ran, with its arguments and outcome

archVars == <<archetype_store, next_entity, heap, returned, inserted, changed>>

sysVars == <<systems, steps>>

bitVars == <<bit_array, bit_word, bit_calls>>

pureVars == <<align_args, align_result, input_state>>

colVars == <<components, shared_resources, next_index, live, defined, sysVars, bitVars, pureVars>>

vars == <<archVars, colVars, panicked, lastOp>>

(***************************************************************************)
(* Bounds of the model.                                                    *)
(***************************************************************************)
MaxEntities == 3
MaxWrites == 1
UsizeBits == 16

Seeds == {1, 2}

Uninit == -1
Dangling == 0

(***************************************************************************)
(* Component types: a type is known to the store by its Layout only.       *)
(* Position and Velocity are two f32 fields; Tag is a one-byte newtype;     *)
(* Marker is a unit struct, of size 0.                                     *)
(***************************************************************************)
Types == {"Position", "Velocity", "Tag", "Marker"}

size_of(t) == IF t = "Marker" THEN 0 ELSE IF t = "Tag" THEN 1 ELSE 8

align_of(t) == IF t \in {"Tag", "Marker"} THEN 1 ELSE 4

\* The fields of a type: name -> <<byte offset, byte length>>.
FieldsOf(t) ==
    IF t = "Marker" THEN <<>>
    ELSE IF t = "Tag" THEN [f \in {"0"} |-> <<0, 1>>]
    ELSE [f \in {"x", "y"} |-> IF f = "x" THEN <<0, 4>> ELSE <<4, 4>>]

TypeTag(t) ==
    CASE t = "Position" -> 1 [] t = "Velocity" -> 2 [] t = "Tag" -> 3 [] t = "Marker" -> 4

\* The bytes of the component of type t in the bundle drawn with seed s.
ValueBytes(t, s) == [j \in 1..size_of(t) |-> (s * 64 + TypeTag(t) * 16 + j) % 256]

\* The bytes stored by an assignment to a field of n bytes (0.0f32 is 0,0,0,0).
NewFieldBytes(n) == [j \in 1..n |-> 0]

Signatures == {<<"Position", "Velocity">>, <<"Tag", "Position">>, <<"Position", "Tag">>}

\* Bundle types a caller may name in a lookup; <<"Velocity">> is never inserted.
LookupSignatures == Signatures \cup {<<"Velocity">>}

\* Mutant: the key is the type list in a canonical order.
type_ids_Sorted(sig) ==
    IF Len(sig) = 2 /\ TypeTag(sig[1]) > TypeTag(sig[2]) THEN <<sig[2], sig[1]>> ELSE sig

\* CB::type_ids(): the TypeIds in the order of the tuple.
type_ids(sig) == sig

BundleValue(sig, s) == [i \in 1..Len(sig) |-> ValueBytes(sig[i], s)]

metadata(sig) ==
    [i \in 1..Len(sig) |->
        [size |-> size_of(sig[i]), align |-> align_of(sig[i]), type_id |-> sig[i]]]

(***************************************************************************)
(* usize arithmetic of align_value: value + alignment - 1 & !(alignment-1) *)
(***************************************************************************)
UsizeMax == 2 ^ UsizeBits - 1

RECURSIVE BitAnd(_, _)
BitAnd(x, y) ==
    IF x = 0 \/ y = 0 THEN 0
    ELSE (x % 2) * (y % 2) + 2 * BitAnd(x \div 2, y \div 2)

BitNot(x) == UsizeMax - x

\* Mutant: the value is bumped by the whole alignment before the mask.
align_value_Bumped(value, alignment) == BitAnd(value + alignment, BitNot(alignment - 1))

align_value(value, alignment) == BitAnd(value + alignment - 1, BitNot(alignment - 1))

(***************************************************************************)
(* The allocator.  A buffer is [size, align, base, live, released, bytes];  *)
(* bytes[k + 1] is the byte at offset k and released counts the dealloc    *)
(* calls made on it.  A pointer is an index into heap, Dangling if nothing *)
(* was allocated.  base is the address the allocator chose for the buffer, *)
(* kept modulo MaxAlign: alloc promises a multiple of align, nothing more. *)
(***************************************************************************)
MaxAlign == 4

\* The addresses alloc may return for a Layout of alignment align.
BaseAddresses(align) == {b \in 0..(MaxAlign - 1) : b % align = 0}

\* The address of an allocator that, like malloc, aligns every block to MaxAlign.
MallocBase == 0

alloc(h, size, align, addr) ==
    Append(h, [size |-> size, align |-> align, base |-> addr, live |-> TRUE,
               released |-> 0, bytes |-> [k \in 1..size |-> Uninit]])

dealloc(h, ptr, size, align) ==
    [h EXCEPT ![ptr] = [size |-> @.size, align |-> @.align, base |-> @.base,
                        live |-> FALSE, released |-> @.released + 1, bytes |-> <<>>]]

\* std::ptr::copy / copy_nonoverlapping of n bytes, src + so -> dst + do.
copy_bytes(src, so, dst, do, n) ==
    [k \in 1..Len(dst) |-> IF k > do /\ k <= do + n THEN src[so + (k - do)] ELSE dst[k]]

(***************************************************************************)
(* Archetype                                                               *)
(***************************************************************************)
ArchetypeNew(types_metadata) ==
    [data |-> Dangling,
     capacity |-> 0,
     entity_count |-> 0,
     size |-> 0,
     types_metadata |-> types_metadata,
     type_offsets |-> [i \in 1..Len(types_metadata) |-> 0],
     stored_entities |-> <<>>]

RECURSIVE ComputeLoop(_, _, _, _, _)
ComputeLoop(tm, capacity, i, size, type_offsets) ==
    IF i > Len(tm) THEN [size |-> size, type_offsets |-> type_offsets]
    ELSE LET aligned == align_value(size, tm[i].align)
         IN ComputeLoop(tm, capacity, i + 1, aligned + tm[i].size * capacity,
                        [type_offsets EXCEPT ![i] = aligned])

\* Mutant: the columns are laid out for a single row whatever the capacity.
compute_required_size_for_capacity_OneRow(a, capacity) ==
    ComputeLoop(a.types_metadata, 1, 1, 0,
                [i \in 1..Len(a.types_metadata) |-> 0])

compute_required_size_for_capacity(a, capacity) ==
    ComputeLoop(a.types_metadata, capacity, 1, 0,
                [i \in 1..Len(a.types_metadata) |-> 0])

data_alignment(a) ==
    IF Len(a.types_metadata) = 0 THEN 1 ELSE a.types_metadata[1].align

\* Mutant: grow copies used_rows bytes instead of used_rows * element_size.
GrowCopyLen_RowsOnly(a, type_index) == a.entity_count

\* The number of bytes grow copies for column type_index.
GrowCopyLen(a, type_index) == a.entity_count * a.types_metadata[type_index].size

RECURSIVE GrowCopyLoop(_, _, _, _, _)
GrowCopyLoop(a, new_offsets, old_bytes, new_bytes, type_index) ==
    IF type_index > Len(a.types_metadata) THEN new_bytes
    ELSE GrowCopyLoop(a, new_offsets, old_bytes,
                      copy_bytes(old_bytes, a.type_offsets[type_index],
                                 new_bytes, new_offsets[type_index],
                                 GrowCopyLen(a, type_index)),
                      type_index + 1)

\* Mutant: grow swaps in the new buffer, capacity and size and keeps the old
\* column offsets.
grow_StaleOffsets(a, h, new_capacity, addr) ==
    LET c == compute_required_size_for_capacity(a, new_capacity)
        alignment == data_alignment(a)
        h1 == alloc(h, c.size, alignment, addr)
        new_data == Len(h1)
        h2 == IF a.capacity # 0
              THEN dealloc([h1 EXCEPT ![new_data].bytes =
                               GrowCopyLoop(a, c.type_offsets, h1[a.data].bytes, @, 1)],
                           a.data, a.size, alignment)
              ELSE h1
    IN [arch |-> [a EXCEPT !.data = new_data,
                           !.capacity = new_capacity,
                           !.size = c.size],
        heap |-> h2]

\* grow returns the archetype and the heap after the reallocation; addr is the
\* address alloc returns to it.
grow(a, h, new_capacity, addr) ==
    LET c == compute_required_size_for_capacity(a, new_capacity)
        alignment == data_alignment(a)
        h1 == alloc(h, c.size, alignment, addr)
        new_data == Len(h1)
        h2 == IF a.capacity # 0
              THEN dealloc([h1 EXCEPT ![new_data].bytes =
                               GrowCopyLoop(a, c.type_offsets, h1[a.data].bytes, @, 1)],
                           a.data, a.size, alignment)
              ELSE h1
    IN [arch |-> [a EXCEPT !.data = new_data,
                           !.type_offsets = c.type_offsets,
                           !.capacity = new_capacity,
                           !.size = c.size],
        heap |-> h2]

\* Mutant: the capacity grows by one row at a time.
allocate_storage_for_entity_ByOne(a, h, entity, addr) ==
    LET g == IF a.entity_count = a.capacity
             THEN grow(a, h, a.capacity + 1, addr)
             ELSE [arch |-> a, heap |-> h]
    IN [arch |-> [g.arch EXCEPT !.stored_entities = (entity :> g.arch.entity_count) @@ @,
                                !.entity_count = @ + 1],
        heap |-> g.heap,
        row |-> g.arch.entity_count]

\* Mutant: every entity is recorded at row 0.
allocate_storage_for_entity_RowZero(a, h, entity, addr) ==
    LET g == IF a.entity_count = a.capacity
             THEN IF a.capacity = 0 THEN grow(a, h, 1, addr)
                  ELSE grow(a, h, a.capacity * 2, addr)
             ELSE [arch |-> a, heap |-> h]
    IN [arch |-> [g.arch EXCEPT !.stored_entities = (entity :> 0) @@ @,
                                !.entity_count = @ + 1],
        heap |-> g.heap,
        row |-> 0]

\* allocate_storage_for_entity returns the archetype, the heap and the row.
allocate_storage_for_entity(a, h, entity, addr) ==
    LET g == IF a.entity_count = a.capacity
             THEN IF a.capacity = 0 THEN grow(a, h, 1, addr)
                  ELSE grow(a, h, a.capacity * 2, addr)
             ELSE [arch |-> a, heap |-> h]
    IN [arch |-> [g.arch EXCEPT !.stored_entities = (entity :> g.arch.entity_count) @@ @,
                                !.entity_count = @ + 1],
        heap |-> g.heap,
        row |-> g.arch.entity_count]

\* impl Drop for Archetype: the heap after the archetype is dropped.
drop(a, h) ==
    IF a.size > 0 THEN dealloc(h, a.data, a.size, data_alignment(a)) ELSE h

\* Mutant: the row stride forgets the element size.
component_ptr_UnitStride(a, data_index, data_size, type_index) ==
    a.type_offsets[type_index] + data_index

component_ptr(a, data_index, data_size, type_index) ==
    a.type_offsets[type_index] + data_index * data_size

write_component(a, h, type_index, data_index, data_size, data) ==
    [h EXCEPT ![a.data].bytes =
        copy_bytes(data, 0, @, component_ptr(a, data_index, data_size, type_index), data_size)]

\* The bytes a reference obtained from read_component / read_component_mut sees.
read_component(a, h, type_index, data_index, data_size) ==
    LET ptr == component_ptr(a, data_index, data_size, type_index)
    IN [j \in 1..data_size |-> h[a.data].bytes[ptr + j]]

data_index_for_entity(a, entity) == a.stored_entities[entity]

(***************************************************************************)
(* ComponentBundle: position i of the tuple is column i of the archetype.  *)
(***************************************************************************)
RECURSIVE WriteIntoLoop(_, _, _, _, _, _)
WriteIntoLoop(sig, bundle, a, h, data_index, i) ==
    IF i > Len(sig) THEN h
    ELSE WriteIntoLoop(sig, bundle, a,
                       write_component(a, h, i, data_index, size_of(sig[i]), bundle[i]),
                       data_index, i + 1)

write_into(sig, bundle, a, h, data_index) == WriteIntoLoop(sig, bundle, a, h, data_index, 1)

read_entity(sig, a, h, entity) ==
    LET data_index == data_index_for_entity(a, entity)
    IN [i \in 1..Len(sig) |-> read_component(a, h, i, data_index, size_of(sig[i]))]

\* Mutant: every position resolves to the first column.
read_entity_mut_FirstColumn(sig, a, entity) ==
    LET data_index == data_index_for_entity(a, entity)
    IN [i \in 1..Len(sig) |-> component_ptr(a, data_index, size_of(sig[i]), 1)]

\* read_entity_mut: one pointer per position, each the start of the slot a
\* mutable reference to that component refers to.
read_entity_mut(sig, a, entity) ==
    LET data_index == data_index_for_entity(a, entity)
    IN [i \in 1..Len(sig) |-> component_ptr(a, data_index, size_of(sig[i]), i)]

\* An assignment of bytes to the field at byte offset off of the component a
\* mutable reference ptr refers to.
write_field(a, h, ptr, off, bytes) ==
    [h EXCEPT ![a.data].bytes = copy_bytes(bytes, 0, @, ptr + off, Len(bytes))]

(***************************************************************************)
(* Archetype::fetch and ComponentIterator                                  *)
(***************************************************************************)
match_component(a, C) == \E i \in 1..Len(a.types_metadata) : a.types_metadata[i].type_id = C

\* Iterator::position: the first column of type C.
TypeIndexOf(a, C) ==
    CHOOSE i \in 1..Len(a.types_metadata) :
        /\ a.types_metadata[i].type_id = C
        /\ \A j \in 1..(i - 1) : a.types_metadata[j].type_id # C

\* Mutant: the iterator runs to the capacity instead of the used-row count.
fetch_ToCapacity(a, C) ==
    [data |-> a.data,
     ptr |-> a.type_offsets[TypeIndexOf(a, C)],
     index |-> 0,
     entity_count |-> a.capacity,
     elem |-> size_of(C)]

\* fetch::<C>() builds the iterator [ptr, index, entity_count] over a.data.
fetch(a, C) ==
    [data |-> a.data,
     ptr |-> a.type_offsets[TypeIndexOf(a, C)],
     index |-> 0,
     entity_count |-> a.entity_count,
     elem |-> size_of(C)]

\* ComponentIterator::next, run until it returns None: the items it yields.
RECURSIVE ComponentIteratorItems(_, _, _)
ComponentIteratorItems(it, h, acc) ==
    IF it.index >= it.entity_count THEN acc
    ELSE ComponentIteratorItems(
             [it EXCEPT !.index = @ + 1], h,
             Append(acc, [j \in 1..it.elem |->
                             h[it.data].bytes[it.ptr + it.index * it.elem + j]]))

(***************************************************************************)
(* Ecs (archetype store)                                                   *)
(***************************************************************************)
EcsNewNextEntity == 1

entity_count == next_entity - 1

\* Mutant: insert_one forgets to advance the counter.
NextEntityAfter_Stuck(n) == n

\* insert_one: self.next_entity += 1.
NextEntityAfter(n) == n + 1

\* insert_one on the store w = [archetype_store, next_entity, heap, addr], addr
\* being what alloc returns if the call allocates; the result carries the
\* returned entity.
insert_one(w, sig, bundle) ==
    LET entity == w.next_entity
        archetype == IF type_ids(sig) \in DOMAIN w.archetype_store
                     THEN w.archetype_store[type_ids(sig)]
                     ELSE ArchetypeNew(metadata(sig))
        \* or_insert drops the Archetype::new it was handed when the entry exists
        unused == IF type_ids(sig) \in DOMAIN w.archetype_store
                  THEN drop(ArchetypeNew(metadata(sig)), w.heap)
                  ELSE w.heap
        s == allocate_storage_for_entity(archetype, unused, entity, w.addr)
    IN [archetype_store |-> (type_ids(sig) :> s.arch) @@ w.archetype_store,
        next_entity |-> NextEntityAfter(w.next_entity),
        heap |-> write_into(sig, bundle, s.arch, s.heap, s.row),
        addr |-> w.addr,
        entity |-> entity]

RECURSIVE InsertLoop(_, _, _, _)
\* insert(vec): insert_one for every bundle, in vector order; ids collects the
\* entities the calls returned.
InsertLoop(w, sig, seeds, ids) ==
    IF seeds = <<>> THEN [w |-> w, ids |-> ids]
    ELSE LET r == insert_one(w, sig, BundleValue(sig, Head(seeds)))
         IN InsertLoop(r, sig, Tail(seeds), Append(ids, r.entity))

\* The store, with an allocator that returns addr.
StoreAt(addr) ==
    [archetype_store |-> archetype_store, next_entity |-> next_entity, heap |-> heap,
     addr |-> addr]

Store == StoreAt(MallocBase)

\* What entity::<CB>(id) returns when it returns: one byte string per position.
entity(sig, id) == read_entity(sig, archetype_store[type_ids(sig)], heap, id)

\* Mutant: the lookup only tests that the archetype exists.
LookupOutcome_AnyRow(sig, id) ==
    IF type_ids(sig) \notin DOMAIN archetype_store THEN "panic: unwrap on None" ELSE "Ok"

LookupOutcome(sig, id) ==
    IF type_ids(sig) \notin DOMAIN archetype_store THEN "panic: unwrap on None"
    ELSE IF id \notin DOMAIN archetype_store[type_ids(sig)].stored_entities
         THEN "panic: key not found"
         ELSE "Ok"

InitArch ==
    /\ archetype_store = <<>>
    /\ next_entity = EcsNewNextEntity
    /\ heap = <<>>
    /\ returned = <<>>
    /\ inserted = <<>>
    /\ changed = <<>>

InsertOne(sig, s) ==
    /\ ~panicked
    /\ Len(returned) < MaxEntities
    /\ LET r == insert_one(Store, sig, BundleValue(sig, s))
       IN /\ archetype_store' = r.archetype_store
          /\ next_entity' = r.next_entity
          /\ heap' = r.heap
          /\ returned' = Append(returned, r.entity)
          /\ inserted' = (r.entity :> [sig |-> sig, vals |-> BundleValue(sig, s)]) @@ inserted
          /\ lastOp' = [op |-> "insert_one", sig |-> sig, result |-> "Ok"]
    /\ UNCHANGED <<changed, panicked, colVars>>

Insert(sig, seeds) ==
    /\ ~panicked
    /\ Len(returned) + Len(seeds) <= MaxEntities
    /\ LET r == InsertLoop(Store, sig, seeds, <<>>)
       IN /\ archetype_store' = r.w.archetype_store
          /\ next_entity' = r.w.next_entity
          /\ heap' = r.w.heap
          /\ returned' = returned \o r.ids
          /\ inserted' = [id \in {r.ids[k] : k \in 1..Len(seeds)} |->
                            [sig |-> sig,
                             vals |-> BundleValue(sig,
                                        seeds[CHOOSE k \in 1..Len(seeds) : r.ids[k] = id])]]
                         @@ inserted
          /\ lastOp' = IF seeds = <<>> THEN lastOp
                       ELSE [op |-> "insert_one", sig |-> sig, result |-> "Ok"]
    /\ UNCHANGED <<changed, panicked, colVars>>

\* entity::<CB>(id): a read; it changes nothing when it returns.
Entity(sig, id) ==
    /\ ~panicked
    /\ IF LookupOutcome(sig, id) = "Ok"
       THEN UNCHANGED vars
       ELSE /\ panicked' = TRUE
            /\ lastOp' = [op |-> "entity", sig |-> sig, result |-> LookupOutcome(sig, id)]
            /\ UNCHANGED <<archVars, colVars>>

\* entity_mut::<CB>(id), then an assignment to a field of one of the components
\* through the reference returned for it.
EntityMut(sig, id) ==
    /\ ~panicked
    /\ IF LookupOutcome(sig, id) = "Ok"
       THEN /\ \E pos \in 1..Len(sig) : \E f \in DOMAIN FieldsOf(sig[pos]) :
                 /\ Cardinality(DOMAIN changed \cup {<<id, pos, f>>}) <= MaxWrites
                 /\ LET a == archetype_store[type_ids(sig)]
                        refs == read_entity_mut(sig, a, id)
                        fld == FieldsOf(sig[pos])[f]
                        bytes == NewFieldBytes(fld[2])
                    IN /\ heap' = write_field(a, heap, refs[pos], fld[1], bytes)
                       /\ changed' = (<<id, pos, f>> :> bytes) @@ changed
            /\ lastOp' = [op |-> "entity_mut", sig |-> sig, result |-> "Ok"]
            /\ UNCHANGED <<archetype_store, next_entity, returned, inserted, panicked, colVars>>
       ELSE /\ panicked' = TRUE
            /\ lastOp' = [op |-> "entity_mut", sig |-> sig, result |-> LookupOutcome(sig, id)]
            /\ UNCHANGED <<archVars, colVars>>

SeedVecs == {<<>>} \cup {<<s>> : s \in Seeds} \cup {<<s1, s2>> : s1 \in Seeds, s2 \in Seeds}

(***************************************************************************)
(* The bitset-column store: bitset.rs                                      *)
(*                                                                         *)
(* A u64 is the set of its set bit positions, so | is \cup, & is \cap and  *)
(* 1 << r is {r}.  A [u64; 1024] is kept sparse: cell -> word for the      *)
(* non-zero words, every other cell below BitsetWords reading as 0.        *)
(***************************************************************************)
WordBits == 64
BitsetWords == 1024

EmptyBitset == <<>>

Word(bitset, cell) == IF cell \in DOMAIN bitset THEN bitset[cell] ELSE {}

SetWord(bitset, cell, word) ==
    IF word = {} THEN [c \in DOMAIN bitset \ {cell} |-> bitset[c]]
    ELSE (cell :> word) @@ bitset

set_bit(bitset, b) ==
    LET cell == b \div WordBits
        remainder == b % WordBits
    IN SetWord(bitset, cell, Word(bitset, cell) \cup {remainder})

\* Mutant: unset_bit zeroes the whole word.
unset_bit_WholeWord(bitset, b) ==
    LET cell == b \div WordBits
    IN SetWord(bitset, cell, {})

unset_bit(bitset, b) ==
    LET cell == b \div WordBits
        remainder == b % WordBits
    IN SetWord(bitset, cell, Word(bitset, cell) \cap ((0..(WordBits - 1)) \ {remainder}))

bit(bitset, b) ==
    LET cell == b \div WordBits
        remainder == b % WordBits
    IN (Word(bitset, cell) \cap {remainder}) # {}

bit_count(bitset) == BitsetWords * WordBits

\* impl BitSet for u64: the word is the set of its set bit positions.
u64_set_bit(word, b) == word \cup {b}

u64_unset_bit(word, b) == word \cap ((0..(WordBits - 1)) \ {b})

u64_bit(word, b) == (word \cap {b}) # {}

u64_bit_count(word) == WordBits

(***************************************************************************)
(* RefCell<Box<dyn Any>>: the value and the borrow flag (0 free, n > 0     *)
(* shared n times, -1 exclusive).  Option is a sequence of length <= 1.    *)
(***************************************************************************)
None == <<>>

Some(x) == <<x>>

RefCellNew(v) == [value |-> v, borrow |-> 0]

\* RefCell::borrow panics when the cell is exclusively borrowed.
CanBorrow(cell) == cell.borrow >= 0

\* Mutant: borrow_mut succeeds on a cell that is only shared.
CanBorrowMut_Shared(cell) == cell.borrow >= 0

\* RefCell::borrow_mut panics when the cell is borrowed at all.
CanBorrowMut(cell) == cell.borrow = 0

Borrowed(cell, mode) ==
    IF mode = "R" THEN [cell EXCEPT !.borrow = @ + 1] ELSE [cell EXCEPT !.borrow = -1]

\* Dropping a Ref / RefMut.
Released(cell, mode) ==
    IF mode = "R" THEN [cell EXCEPT !.borrow = @ - 1] ELSE [cell EXCEPT !.borrow = 0]

(***************************************************************************)
(* tuber-core input.rs: Input and InputState.  A key or a button is its    *)
(* discriminant; an Input is [kind, arg].                                  *)
(***************************************************************************)
KeyCount == 43

ButtonCount == 3

KeyDown(key) == [kind |-> "KeyDown", arg |-> key]
KeyUp(key) == [kind |-> "KeyUp", arg |-> key]
MouseMotion(position) == [kind |-> "MouseMotion", arg |-> position]
MouseButtonDown(button) == [kind |-> "MouseButtonDown", arg |-> button]
MouseButtonUp(button) == [kind |-> "MouseButtonUp", arg |-> button]

\* InputState::new.
InputStateNew ==
    [key_state |-> [k \in 0..(KeyCount - 1) |-> FALSE],
     previous_key_state |-> [k \in 0..(KeyCount - 1) |-> FALSE],
     mouse_button_state |-> [b \in 0..(ButtonCount - 1) |-> FALSE],
     previous_mouse_button_state |-> [b \in 0..(ButtonCount - 1) |-> FALSE],
     last_mouse_position |-> <<0, 0>>,
     mouse_moved |-> FALSE]

\* InputState::is.
is(state, input) ==
    CASE input.kind = "KeyDown" -> state.key_state[input.arg]
      [] input.kind = "KeyUp" -> ~state.key_state[input.arg]
      [] input.kind = "MouseButtonDown" -> state.mouse_button_state[input.arg]
      [] input.kind = "MouseButtonUp" -> ~state.mouse_button_state[input.arg]
      [] input.kind = "MouseMotion" -> state.mouse_moved

\* InputState::was; MouseMotion is unimplemented!() and panics.
was(state, input) ==
    CASE input.kind = "KeyDown" -> state.previous_key_state[input.arg]
      [] input.kind = "KeyUp" -> ~state.previous_key_state[input.arg]
      [] input.kind = "MouseButtonDown" -> state.previous_mouse_button_state[input.arg]
      [] input.kind = "MouseButtonUp" -> ~state.previous_mouse_button_state[input.arg]
      [] input.kind = "MouseMotion" -> "panic: not implemented"

\* The match of handle_input, after the snapshots were taken.
HandleMatch(state, input) ==
    CASE input.kind = "KeyDown" -> [state EXCEPT !.key_state[input.arg] = TRUE]
      [] input.kind = "KeyUp" -> [state EXCEPT !.key_state[input.arg] = FALSE]
      [] input.kind = "MouseButtonDown" ->
             [state EXCEPT !.mouse_button_state[input.arg] = TRUE]
      [] input.kind = "MouseButtonUp" ->
             [state EXCEPT !.mouse_button_state[input.arg] = FALSE]
      [] input.kind = "MouseMotion" ->
             [state EXCEPT !.last_mouse_position = input.arg, !.mouse_moved = TRUE]

\* Mutant: a mouse motion leaves the previous-state snapshots alone.
handle_input_KeepOnMotion(state, input) ==
    IF input.kind = "MouseMotion"
    THEN HandleMatch([state EXCEPT !.mouse_moved = FALSE], input)
    ELSE HandleMatch([state EXCEPT !.mouse_moved = FALSE,
                                   !.previous_key_state = state.key_state,
                                   !.previous_mouse_button_state = state.mouse_button_state],
                     input)

\* InputState::handle_input.
handle_input(state, input) ==
    HandleMatch([state EXCEPT !.mouse_moved = FALSE,
                              !.previous_key_state = state.key_state,
                              !.previous_mouse_button_state = state.mouse_button_state],
                input)

(***************************************************************************)
(* ComponentStore and ecs::Ecs (ecs.rs)                                    *)
(***************************************************************************)
ColTypes == {"Value", "Other"}

\* Entity definitions: tuples of component types.
Definitions == {<<"Value">>, <<"Other">>, <<"Value", "Other">>}

\* The component values of the definition drawn with seed v (an i32 each).
DefinitionValues(def, v) == [i \in 1..Len(def) |-> IF def[i] = "Value" THEN v ELSE v + 100]

\* The seed of the entity inserted at index: 12, 18, ... as in system.rs:61-62,
\* so that no two entities hold the same value.
SeedAt(index) == 12 + 6 * index

\* Mutant: a store created late starts with the single slot of ComponentStore::new.
ComponentStore_with_size_New(size) ==
    [component_data |-> <<None>>, entities_bitset |-> EmptyBitset]

ComponentStore_with_size(size) ==
    [component_data |-> [k \in 1..(size + 1) |-> None], entities_bitset |-> EmptyBitset]

RECURSIVE StoreLoop(_, _, _, _, _)
\* The macro repetition of store_components: one entry per tuple position.
StoreLoop(comps, def, vals, index, i) ==
    IF i > Len(def) THEN comps
    ELSE LET store == IF def[i] \in DOMAIN comps THEN comps[def[i]]
                      ELSE ComponentStore_with_size(index)
             stored == [component_data |->
                           [store.component_data EXCEPT ![Len(store.component_data)] =
                               Some(RefCellNew(vals[i]))],
                        entities_bitset |-> set_bit(store.entities_bitset, index)]
         IN StoreLoop((def[i] :> stored) @@ comps, def, vals, index, i + 1)

store_components(comps, def, vals, index) ==
    StoreLoop([t \in DOMAIN comps |->
                  [comps[t] EXCEPT !.component_data = Append(@, None)]],
              def, vals, index, 1)

col_entity_count == next_index

(***************************************************************************)
(* Query and accessors (query.rs).  An accessor is [mode, type].           *)
(***************************************************************************)
R(t) == [mode |-> "R", type |-> t]

W(t) == [mode |-> "W", type |-> t]

query_type_ids(Q) == [i \in 1..Len(Q) |-> Q[i].type]

\* Mutant: an absent component is reported as a failure value.
AccessorFetchOutcome_Err(comps, acc, index) ==
    IF acc.type \notin DOMAIN comps THEN "Err: no column"
    ELSE IF index >= Len(comps[acc.type].component_data) THEN "Err: no entity"
    ELSE IF comps[acc.type].component_data[index + 1] = None THEN "Err: absent"
    ELSE LET cell == comps[acc.type].component_data[index + 1][1]
         IN IF acc.mode = "R"
            THEN IF CanBorrow(cell) THEN "Ok" ELSE "panic: already mutably borrowed"
            ELSE IF CanBorrowMut(cell) THEN "Ok" ELSE "panic: already borrowed"

\* What R<T>::fetch / W<T>::fetch do at index: "Ok", or the panic they end in.
AccessorFetchOutcome(comps, acc, index) ==
    IF acc.type \notin DOMAIN comps THEN "panic: no entry found for key"
    ELSE IF index >= Len(comps[acc.type].component_data) THEN "panic: index out of bounds"
    ELSE IF comps[acc.type].component_data[index + 1] = None THEN "panic: unwrap on None"
    ELSE LET cell == comps[acc.type].component_data[index + 1][1]
         IN IF acc.mode = "R"
            THEN IF CanBorrow(cell) THEN "Ok" ELSE "panic: already mutably borrowed"
            ELSE IF CanBorrowMut(cell) THEN "Ok" ELSE "panic: already borrowed"

\* The store after a fetch that returned: the cell's flag records the borrow.
AccessorFetch(comps, acc, index) ==
    [comps EXCEPT ![acc.type].component_data[index + 1][1] = Borrowed(@, acc.mode)]

AccessorRelease(comps, acc, index) ==
    [comps EXCEPT ![acc.type].component_data[index + 1][1] = Released(@, acc.mode)]

RECURSIVE QueryFetchLoop(_, _, _, _)
\* Query::fetch: the accessors fetch one after the other, left to right.
QueryFetchLoop(comps, Q, index, i) ==
    IF i > Len(Q) THEN [outcome |-> "Ok", comps |-> comps]
    ELSE LET o == AccessorFetchOutcome(comps, Q[i], index)
         IN IF o # "Ok" THEN [outcome |-> o, comps |-> comps]
            ELSE QueryFetchLoop(AccessorFetch(comps, Q[i], index), Q, index, i + 1)

QueryFetch(comps, Q, index) == QueryFetchLoop(comps, Q, index, 1)

RECURSIVE QueryReleaseLoop(_, _, _, _)
QueryReleaseLoop(comps, Q, index, i) ==
    IF i > Len(Q) THEN comps
    ELSE QueryReleaseLoop(AccessorRelease(comps, Q[i], index), Q, index, i + 1)

\* Dropping the item Query::fetch returned.
QueryRelease(comps, Q, index) == QueryReleaseLoop(comps, Q, index, 1)

\* Mutant: a row matches as soon as one bitset has it.
RowMatches_Any(bitsets, i) == \E k \in 1..Len(bitsets) : bit(bitsets[k], i)

\* The test QueryIterator::new applies to row i, given the bitsets it found.
RowMatches(bitsets, i) == \A k \in 1..Len(bitsets) : bit(bitsets[k], i)

RECURSIVE MatchingLoop(_, _, _, _)
\* 'outer: for i in 0..entity_count, from row i on.
MatchingLoop(bitsets, i, count, matching_entities) ==
    IF i >= count THEN matching_entities
    ELSE MatchingLoop(bitsets, i + 1, count,
                      IF RowMatches(bitsets, i) THEN Append(matching_entities, i)
                      ELSE matching_entities)

\* Mutant: the scan starts at row 1.
QueryIteratorNew_SkipFirst(count, comps, Q) ==
    LET found == SelectSeq(query_type_ids(Q), LAMBDA t : t \in DOMAIN comps)
        bitsets == [k \in 1..Len(found) |-> comps[found[k]].entities_bitset]
    IN [index |-> 0,
        matching_entities |-> IF Len(bitsets) = Len(query_type_ids(Q))
                              THEN MatchingLoop(bitsets, 1, count, <<>>)
                              ELSE <<>>]

\* QueryIterator::new: the materialized row list.
QueryIteratorNew(count, comps, Q) ==
    LET found == SelectSeq(query_type_ids(Q), LAMBDA t : t \in DOMAIN comps)
        bitsets == [k \in 1..Len(found) |-> comps[found[k]].entities_bitset]
    IN [index |-> 0,
        matching_entities |-> IF Len(bitsets) = Len(query_type_ids(Q))
                              THEN MatchingLoop(bitsets, 0, count, <<>>)
                              ELSE <<>>]

\* QueryIterator::next: Vec::pop takes the last row of the list.
QueryIteratorPop(it) ==
    [index |-> it.matching_entities[Len(it.matching_entities)],
     matching_entities |-> SubSeq(it.matching_entities, 1, Len(it.matching_entities) - 1)]

\* The value the reference fetched for accessor acc at index refers to.
ValueAt(comps, acc, index) == comps[acc.type].component_data[index + 1][1].value

\* Loop bodies: one that only reads, `c = v` and `c += v` (system.rs:67, 72).
ReadBody == [op |-> "read", v |-> 0]

SetBody(v) == [op |-> "set", v |-> v]

AddBody(v) == [op |-> "add", v |-> v]

BodyResult(body, old) ==
    IF body.op = "set" THEN body.v
    ELSE IF body.op = "add" THEN old + body.v
    ELSE old

RECURSIVE WriteLoop(_, _, _, _, _)
\* The loop body of a pass, applied through every W reference of the item.
WriteLoop(comps, Q, index, body, i) ==
    IF i > Len(Q) THEN comps
    ELSE WriteLoop(IF Q[i].mode = "W"
                   THEN [comps EXCEPT ![Q[i].type].component_data[index + 1][1].value =
                                          BodyResult(body, @)]
                   ELSE comps,
                   Q, index, body, i + 1)

RECURSIVE ForEachLoop(_, _, _, _, _)
\* for item in ecs.query::<Q>() { body }: every item is fetched, used and dropped
\* before the next one is fetched.  The result lists the rows yielded and the
\* values read, in the order of the iteration.
ForEachLoop(comps, Q, it, body, yielded) ==
    IF it.matching_entities = <<>>
    THEN [outcome |-> "Ok", comps |-> comps, yielded |-> yielded]
    ELSE LET n == QueryIteratorPop(it)
             f == QueryFetch(comps, Q, n.index)
         IN IF f.outcome # "Ok"
            THEN [outcome |-> f.outcome, comps |-> comps, yielded |-> yielded]
            ELSE LET item == [index |-> n.index,
                              values |-> [i \in 1..Len(Q) |-> ValueAt(f.comps, Q[i], n.index)]]
                     used == WriteLoop(f.comps, Q, n.index, body, 1)
                 IN ForEachLoop(QueryRelease(used, Q, n.index), Q, n, body,
                                Append(yielded, item))

\* ecs.query::<Q>() iterated to its end.
ForEach(comps, count, Q, body) ==
    ForEachLoop(comps, Q, QueryIteratorNew(count, comps, Q), body, <<>>)

RECURSIVE FirstMatch_NoBreak(_, _, _, _)
\* Mutant: the scan does not stop at the first match.
FirstMatch_NoBreak(bitsets, i, count, index) ==
    IF i >= count THEN index
    ELSE FirstMatch_NoBreak(bitsets, i + 1, count,
                            IF RowMatches(bitsets, i) THEN Some(i) ELSE index)

RECURSIVE FirstMatch(_, _, _, _)
\* query_one: for i in 0..entity_count { if all bits { index = Some(i); break } },
\* from row i on.
FirstMatch(bitsets, i, count, index) ==
    IF i >= count THEN index
    ELSE IF RowMatches(bitsets, i) THEN Some(i)
    ELSE FirstMatch(bitsets, i + 1, count, index)

\* Ecs::query_one: the outcome, the Option returned and the store while the
\* returned references are alive.
query_one(comps, count, Q) ==
    LET found == SelectSeq(query_type_ids(Q), LAMBDA t : t \in DOMAIN comps)
        bitsets == [k \in 1..Len(found) |-> comps[found[k]].entities_bitset]
        index == FirstMatch(bitsets, 0, count, None)
    IN IF Len(bitsets) # Len(query_type_ids(Q)) \/ index = None
       THEN [outcome |-> "Ok", result |-> None, comps |-> comps]
       ELSE LET f == QueryFetch(comps, Q, index[1])
            IN IF f.outcome # "Ok"
               THEN [outcome |-> f.outcome, result |-> None, comps |-> comps]
               ELSE [outcome |-> "Ok",
                     result |-> Some([index |-> index[1],
                                      values |-> [k \in 1..Len(Q) |->
                                                     ValueAt(f.comps, Q[k], index[1])]]),
                     comps |-> f.comps]

Queries ==
    {<<R("Value")>>, <<R("Other")>>, <<R("Value"), R("Other")>>,
     <<W("Value"), R("Other")>>, <<W("Value"), R("Value")>>,
     <<R("Value"), R("Value")>>}

InitCols ==
    /\ components = <<>>
    /\ shared_resources = <<>>
    /\ next_index = 0
    /\ live = <<>>
    /\ defined = <<>>
    /\ systems = <<>>
    /\ steps = 0
    /\ bit_array = EmptyBitset
    /\ bit_word = {}
    /\ bit_calls = [array |-> <<>>, word |-> <<>>]
    /\ align_args = <<0, 1>>
    /\ align_result = align_value(0, 1)
    /\ input_state = InputStateNew

\* Mutant: insert does not advance next_index.
ColInsert_Reuse(def, v) ==
    /\ ~panicked
    /\ live = <<>>
    /\ Len(defined) < MaxEntities
    /\ components' = store_components(components, def, DefinitionValues(def, v), next_index)
    /\ next_index' = next_index
    /\ defined' = Append(defined, [def |-> def, vals |-> DefinitionValues(def, v)])
    /\ lastOp' = [op |-> "insert", result |-> "Ok", index |-> next_index]
    /\ UNCHANGED <<shared_resources, live, panicked, sysVars, bitVars, pureVars,
                   archVars>>

\* ecs::Ecs::insert.  It takes &mut self: no reference is live.
ColInsert(def, v) ==
    /\ ~panicked
    /\ live = <<>>
    /\ next_index < MaxEntities
    /\ components' = store_components(components, def, DefinitionValues(def, v), next_index)
    /\ next_index' = next_index + 1
    /\ defined' = Append(defined, [def |-> def, vals |-> DefinitionValues(def, v)])
    /\ lastOp' = [op |-> "insert", result |-> "Ok", index |-> next_index]
    /\ UNCHANGED <<shared_resources, live, panicked, sysVars, bitVars, pureVars,
                   archVars>>

\* for _ in ecs.query::<Q>() {}: a pass that reads.  Every borrow it takes is
\* released again, so a pass that runs to its end changes nothing.
QueryPass(Q) ==
    /\ ~panicked
    /\ live = <<>>
    /\ LET r == ForEach(components, col_entity_count, Q, ReadBody)
       IN IF r.outcome = "Ok"
          THEN /\ components' = r.comps
               /\ UNCHANGED <<lastOp, panicked>>
          ELSE /\ lastOp' = [op |-> "query", result |-> r.outcome, q |-> Q]
               /\ panicked' = TRUE
               /\ UNCHANGED components
    /\ UNCHANGED <<shared_resources, next_index, live, defined, sysVars, bitVars, pureVars,
                   archVars>>

\* The indices of the bits set in a bitset.
SetBits(bitset) ==
    UNION {{cell * WordBits + r : r \in bitset[cell]} : cell \in DOMAIN bitset}

\* R<T>::matching_ids / W<T>::matching_ids: the i below
\* entity_count.max(bit_count()) with bit(i); the scan is over the set bits.
AccessorMatchingIds(count, comps, acc) ==
    IF acc.type \notin DOMAIN comps THEN {}
    ELSE LET bitset == comps[acc.type].entities_bitset
             limit == IF count > bit_count(bitset) THEN count ELSE bit_count(bitset)
         IN {i \in SetBits(bitset) : i < limit}

RECURSIVE MatchingIdsLoop(_, _, _, _, _)
\* Query::matching_ids: the first accessor's ids, intersected with the others'.
MatchingIdsLoop(count, comps, Q, i, result) ==
    IF i > Len(Q) THEN result
    ELSE MatchingIdsLoop(count, comps, Q, i + 1,
                         result \cap AccessorMatchingIds(count, comps, Q[i]))

\* Mutant: only the first accessor's ids are taken.
matching_ids_FirstOnly(count, comps, Q) == AccessorMatchingIds(count, comps, Q[1])

matching_ids(count, comps, Q) ==
    MatchingIdsLoop(count, comps, Q, 2, AccessorMatchingIds(count, comps, Q[1]))

\* Mutant: a delete that matched something empties the whole bitset.
UnsetAll_Everything(bitset, ids) == IF ids = {} THEN bitset ELSE EmptyBitset

RECURSIVE UnsetAll(_, _)
UnsetAll(bitset, ids) ==
    IF ids = {} THEN bitset
    ELSE LET i == CHOOSE i \in ids : TRUE
         IN UnsetAll(unset_bit(bitset, i), ids \ {i})

\* Mutant: only the columns the query names are cleared.
delete_by_query_NamedOnly(comps, count, Q) ==
    LET to_delete == matching_ids(count, comps, Q)
        named == {Q[k].type : k \in 1..Len(Q)}
    IN [outcome |-> "Ok",
        comps |-> [t \in DOMAIN comps |->
                      IF t \notin named THEN comps[t]
                      ELSE [component_data |->
                               [k \in 1..Len(comps[t].component_data) |->
                                   IF (k - 1) \in to_delete THEN None
                                   ELSE comps[t].component_data[k]],
                            entities_bitset |-> UnsetAll(comps[t].entities_bitset, to_delete)]]]

\* Ecs::delete_by_query: for every id to delete, for every column, unset the
\* bit and store None; the indexing panics on a column shorter than the id.
delete_by_query(comps, count, Q) ==
    LET to_delete == matching_ids(count, comps, Q)
    IN IF \E t \in DOMAIN comps : \E i \in to_delete : i >= Len(comps[t].component_data)
       THEN [outcome |-> "panic: index out of bounds", comps |-> comps]
       ELSE [outcome |-> "Ok",
             comps |-> [t \in DOMAIN comps |->
                           [component_data |->
                               [k \in 1..Len(comps[t].component_data) |->
                                   IF (k - 1) \in to_delete THEN None
                                   ELSE comps[t].component_data[k]],
                            entities_bitset |-> UnsetAll(comps[t].entities_bitset, to_delete)]]]

\* Ecs::remove_component, ComponentStore::remove_from_entity.
remove_component(comps, t, entity_index) ==
    IF t \notin DOMAIN comps THEN [outcome |-> "Ok", comps |-> comps]
    ELSE IF entity_index >= bit_count(comps[t].entities_bitset)
            \/ entity_index >= Len(comps[t].component_data)
    THEN [outcome |-> "panic: index out of bounds", comps |-> comps]
    ELSE [outcome |-> "Ok",
          comps |-> [comps EXCEPT ![t] =
                        [component_data |-> [@.component_data EXCEPT ![entity_index + 1] = None],
                         entities_bitset |-> unset_bit(@.entities_bitset, entity_index)]]]

\* The definition d less the component of type t.
Without(d, t) ==
    LET keep == SelectSeq([k \in 1..Len(d.def) |-> k], LAMBDA k : d.def[k] # t)
    IN [def |-> [j \in 1..Len(keep) |-> d.def[keep[j]]],
        vals |-> [j \in 1..Len(keep) |-> d.vals[keep[j]]]]

\* ecs.delete_by_query::<Q>().  It takes &mut self: no reference is live.
DeleteByQuery(Q) ==
    /\ ~panicked
    /\ live = <<>>
    /\ LET r == delete_by_query(components, col_entity_count, Q)
       IN /\ components' = r.comps
          /\ panicked' = (r.outcome # "Ok")
          /\ lastOp' = [op |-> "delete_by_query", result |-> r.outcome, q |-> Q,
                        ids |-> matching_ids(col_entity_count, components, Q)]
    /\ defined' = [k \in 1..Len(defined) |->
                      IF \A j \in 1..Len(Q) :
                            \E pos \in 1..Len(defined[k].def) : defined[k].def[pos] = Q[j].type
                      THEN [def |-> <<>>, vals |-> <<>>]
                      ELSE defined[k]]
    /\ UNCHANGED <<shared_resources, next_index, live, sysVars, bitVars, pureVars,
                   archVars>>

\* ecs.remove_component::<C>(entity_index).
RemoveComponent(t, entity_index) ==
    /\ ~panicked
    /\ live = <<>>
    /\ LET r == remove_component(components, t, entity_index)
       IN /\ components' = r.comps
          /\ panicked' = (r.outcome # "Ok")
          /\ lastOp' = [op |-> "remove_component", result |-> r.outcome]
    /\ defined' = [k \in 1..Len(defined) |->
                      IF k = entity_index + 1 THEN Without(defined[k], t) ELSE defined[k]]
    /\ UNCHANGED <<shared_resources, next_index, live, sysVars, bitVars, pureVars,
                   archVars>>

\* let _ = ecs.query_one::<Q>(): what it returns is dropped at once, so a call
\* that returns changes nothing.
QueryOne(Q) ==
    /\ ~panicked
    /\ live = <<>>
    /\ LET r == query_one(components, col_entity_count, Q)
       IN IF r.outcome = "Ok"
          THEN UNCHANGED <<lastOp, panicked>>
          ELSE /\ lastOp' = [op |-> "query_one", result |-> r.outcome, q |-> Q]
               /\ panicked' = TRUE
    /\ UNCHANGED <<components, shared_resources, next_index, live, defined, sysVars, bitVars, pureVars,
                   archVars>>

NewValues == {0}

\* for (_, (mut c,)) in ecs.query::<(W<T>,)>() { c = v }: a pass that writes.
WritePass(t, v) ==
    /\ ~panicked
    /\ live = <<>>
    /\ LET r == ForEach(components, col_entity_count, <<W(t)>>, SetBody(v))
       IN /\ lastOp' = [op |-> "write_pass", result |-> r.outcome, type |-> t, value |-> v]
          /\ panicked' = (r.outcome # "Ok")
          /\ components' = r.comps
    /\ UNCHANGED <<shared_resources, next_index, live, defined, sysVars, bitVars, pureVars,
                   archVars>>

NextCols ==
    \/ \E def \in Definitions : ColInsert(def, SeedAt(next_index))
    \/ \E Q \in Queries : QueryPass(Q)
    \/ \E Q \in Queries : QueryOne(Q)
    \/ \E Q \in Queries : DeleteByQuery(Q)
    \/ \E t \in ColTypes, i \in 0..next_index : RemoveComponent(t, i)
    \/ \E t \in ColTypes, v \in NewValues : WritePass(t, v)

InitColsSpec ==
    /\ InitArch
    /\ InitCols
    /\ panicked = FALSE
    /\ lastOp = [op |-> "new", result |-> "Ok"]

SpecCols == InitColsSpec /\ [][NextCols]_vars

\* Callers that name any bundle type and any id in a lookup, and never assign
\* through the references entity_mut returns.
NextArch ==
    \/ \E sig \in Signatures, s \in Seeds : InsertOne(sig, s)
    \/ \E sig \in Signatures, seeds \in SeedVecs : Insert(sig, seeds)
    \/ \E sig \in LookupSignatures, id \in 1..next_entity : Entity(sig, id)
    \/ \E sig \in LookupSignatures, id \in 1..next_entity :
          LookupOutcome(sig, id) # "Ok" /\ EntityMut(sig, id)

InitArchSpec ==
    /\ InitArch
    /\ InitCols
    /\ panicked = FALSE
    /\ lastOp = [op |-> "new", sig |-> <<>>, result |-> "Ok"]

SpecArch == InitArchSpec /\ [][NextArch]_vars

\* Callers that look up only what they inserted, with the bundle type they
\* inserted it with, and assign to fields through entity_mut.
NextArchMut ==
    \/ \E sig \in Signatures, s \in Seeds : InsertOne(sig, s)
    \/ \E id \in DOMAIN inserted : EntityMut(inserted[id].sig, id)

SpecArchMut == InitArchSpec /\ [][NextArchMut]_vars

(***************************************************************************)
(* What the history says the store must hold.                              *)
(***************************************************************************)
\* The bytes of field fld = <<offset, length>> of a component.
FieldOf(bytes, fld) == [j \in 1..fld[2] |-> bytes[fld[1] + j]]

\* The ids inserted with signature sig, in the order insert_one returned them.
IdsOf(sig) == SelectSeq(returned, LAMBDA id : inserted[id].sig = sig)

\* The component at position pos of entity id, as inserted and then changed.
Expected(id, pos) ==
    LET t == inserted[id].sig[pos]
        orig == inserted[id].vals[pos]
    IN [j \in 1..size_of(t) |->
          IF \E f \in DOMAIN FieldsOf(t) :
                /\ <<id, pos, f>> \in DOMAIN changed
                /\ j > FieldsOf(t)[f][1] /\ j <= FieldsOf(t)[f][1] + FieldsOf(t)[f][2]
          THEN LET f == CHOOSE f \in DOMAIN FieldsOf(t) :
                           /\ <<id, pos, f>> \in DOMAIN changed
                           /\ j > FieldsOf(t)[f][1]
                           /\ j <= FieldsOf(t)[f][1] + FieldsOf(t)[f][2]
               IN changed[<<id, pos, f>>][j - FieldsOf(t)[f][1]]
          ELSE orig[j]]

Untouched(id) == \A c \in DOMAIN changed : c[1] # id

\* Ecs::fetch::<C>(): the per-archetype sequences of every archetype whose
\* signature contains C, one after the other.
RECURSIVE EcsFetchOver(_, _)
EcsFetchOver(sigs, C) ==
    IF sigs = {} THEN <<>>
    ELSE LET sig == CHOOSE x \in sigs : TRUE
         IN ComponentIteratorItems(fetch(archetype_store[sig], C), heap, <<>>)
            \o EcsFetchOver(sigs \ {sig}, C)

EcsFetch(C) ==
    EcsFetchOver({sig \in DOMAIN archetype_store : match_component(archetype_store[sig], C)}, C)

(***************************************************************************)
(* Claims about the archetype store, checked under SpecArch.               *)
(***************************************************************************)

\* C1: after N insert_one calls (those made by insert(vec) included), entity_count()
\* is N and the k-th call returned id k: ids are 1..N, never 0, never reused.
C1_IdsCountFromOne ==
    /\ entity_count = Len(returned)
    /\ \A k \in 1..Len(returned) : returned[k] = k

C1_Witness ==
    /\ Len(returned) >= 3
    /\ Cardinality(DOMAIN archetype_store) >= 2

\* C2: for every id insert_one returned and nothing wrote to since, entity::<CB>(id)
\* with the bundle type it was inserted with returns, at each position, the bytes
\* that were inserted, whatever was inserted later into this or another archetype.
C2_RoundTrip ==
    \A id \in DOMAIN inserted :
        Untouched(id) =>
            /\ LookupOutcome(inserted[id].sig, id) = "Ok"
            /\ entity(inserted[id].sig, id) = inserted[id].vals

C2_Witness ==
    /\ Len(returned) >= 3
    /\ Untouched(1)
    /\ archetype_store[inserted[1].sig].capacity >= 2
    /\ \E id \in DOMAIN inserted : inserted[id].sig # inserted[1].sig

\* C3: a step that changes an archetype's capacity (a growth) leaves, for every
\* column, the bytes of the rows used before it readable at the new column offset
\* of the new buffer, equal to what they were at the old offset of the old buffer.
C3_GrowthPreservesRows ==
    [][\A sig \in DOMAIN archetype_store :
          LET a == archetype_store[sig]
              b == archetype_store'[sig]
          IN b.capacity # a.capacity =>
                \A i \in 1..Len(a.types_metadata) :
                    \A k \in 1..(a.entity_count * a.types_metadata[i].size) :
                        /\ heap'[b.data].live
                        /\ heap'[b.data].bytes[b.type_offsets[i] + k]
                              = heap[a.data].bytes[a.type_offsets[i] + k]
                        /\ heap'[b.data].bytes[b.type_offsets[i] + k] # Uninit]_vars

C3_Witness ==
    \E sig \in DOMAIN archetype_store :
        /\ archetype_store[sig].capacity = 4
        /\ archetype_store[sig].entity_count = 3
        /\ archetype_store[sig].type_offsets[2] > 8

\* C4: after a field of a component of entity id was assigned through entity_mut,
\* entity::<CB>(id) returns the assigned bytes for that field and the inserted
\* bytes for every field that was not assigned.
C4_EntityMutVisible ==
    \A id \in DOMAIN inserted :
        LET sig == inserted[id].sig
        IN /\ LookupOutcome(sig, id) = "Ok"
           /\ \A pos \in 1..Len(sig) : \A f \in DOMAIN FieldsOf(sig[pos]) :
                 FieldOf(entity(sig, id)[pos], FieldsOf(sig[pos])[f])
                    = IF <<id, pos, f>> \in DOMAIN changed
                      THEN changed[<<id, pos, f>>]
                      ELSE FieldOf(inserted[id].vals[pos], FieldsOf(sig[pos])[f])

C4_Witness ==
    /\ changed # <<>>
    /\ lastOp.op = "entity_mut"
    /\ lastOp.result = "Ok"
    /\ Len(returned) >= 2

\* C5: entity / entity_mut called for a bundle type that has no archetype return an
\* explicit failure value and do not terminate the program.
C5_LookupFailureRecoverable ==
    (/\ lastOp.op \in {"entity", "entity_mut"}
     /\ type_ids(lastOp.sig) \notin DOMAIN archetype_store)
        => (~panicked /\ lastOp.result = "Err")

\* C10: Archetype::fetch::<C>() yields one item per stored row, in row order, item r
\* being the component of type C of the r-th entity stored in the archetype; the
\* concatenation over the archetypes that contain C has as many items as there are
\* entities inserted with a C.
C10_FetchFlattening ==
    \A C \in Types :
        /\ \A sig \in DOMAIN archetype_store :
              match_component(archetype_store[sig], C) =>
                 ComponentIteratorItems(fetch(archetype_store[sig], C), heap, <<>>)
                    = [r \in 1..Len(IdsOf(sig)) |->
                          Expected(IdsOf(sig)[r], TypeIndexOf(archetype_store[sig], C))]
        /\ Len(EcsFetch(C))
              = Cardinality({id \in DOMAIN inserted :
                                \E pos \in 1..Len(inserted[id].sig) : inserted[id].sig[pos] = C})

C10_Witness ==
    /\ Cardinality({sig \in DOMAIN archetype_store :
                       match_component(archetype_store[sig], "Tag")}) = 2
    /\ Len(EcsFetch("Tag")) = 3
    /\ \E sig \in DOMAIN archetype_store : ~match_component(archetype_store[sig], "Velocity")

(***************************************************************************)
(* Claims about the bitset-column store, checked under SpecCols.           *)
(***************************************************************************)
\* Entity index i was defined with a component of type t.
Carries(i, t) == \E pos \in 1..Len(defined[i + 1].def) : defined[i + 1].def[pos] = t

CarriesAll(i, Q) == \A k \in 1..Len(Q) : Carries(i, Q[k].type)

\* No type of Q is named by a W accessor and by another accessor as well.
NoOverlap(Q) ==
    \A j, k \in 1..Len(Q) :
        (j # k /\ Q[j].type = Q[k].type) => (Q[j].mode = "R" /\ Q[k].mode = "R")

\* The items of result r are exactly the rows that carry every type of Q, once each.
ExactRows(r, Q) ==
    /\ \A i \in 0..(next_index - 1) :
          Cardinality({k \in 1..Len(r.yielded) : r.yielded[k].index = i})
             = IF CarriesAll(i, Q) THEN 1 ELSE 0
    /\ \A k \in 1..Len(r.yielded) : r.yielded[k].index \in 0..(next_index - 1)
    /\ (\E k \in 1..Len(Q) : Q[k].type \notin DOMAIN components) => r.yielded = <<>>

\* ecs.query::<Q>() iterated to its end on the current store.
QueryResult(Q) == ForEach(components, col_entity_count, Q, ReadBody)

\* for (_, (c,)) in ecs.query::<(R<T>,)>(): the read pass over T.
ReadPass(t) == QueryResult(<<R(t)>>)

\* C6 (amended): for a Q in which no type is named by a W accessor together with
\* another accessor, query::<Q>() runs to its end and yields exactly one item for
\* each entity index that carries every type Q requests, none for any other index,
\* and nothing when a requested type has no column.
C6_QueryCompleteness ==
    \A Q \in Queries :
        NoOverlap(Q) => (QueryResult(Q).outcome = "Ok" /\ ExactRows(QueryResult(Q), Q))

\* C6 as stated, for every Q: refuted by (W<Value>, R<Value>), whose second
\* accessor panics on the first matching row.
C6_AnyQuery ==
    \A Q \in Queries : QueryResult(Q).outcome = "Ok" /\ ExactRows(QueryResult(Q), Q)

C6_Witness ==
    /\ next_index = 3
    /\ Len(QueryResult(<<R("Value")>>).yielded) = 2
    /\ Len(QueryResult(<<R("Other")>>).yielded) = 2
    /\ Len(QueryResult(<<R("Value"), R("Other")>>).yielded) = 1

\* C9: after a pass over query::<(W<T>,)>() that assigns v through every reference
\* it is given, a read pass over R<T> yields every entity that has a T, reads v for
\* each, and the columns of the other types are what they were before the pass.
C9_MutationVisible ==
    [][(lastOp'.op = "write_pass" /\ lastOp'.result = "Ok") =>
          LET t == lastOp'.type
              rd == ForEach(components', next_index', <<R(t)>>, ReadBody)
          IN /\ rd.outcome = "Ok"
             /\ {rd.yielded[k].index : k \in 1..Len(rd.yielded)}
                   = {i \in 0..(next_index - 1) : Carries(i, t)}
             /\ \A k \in 1..Len(rd.yielded) : rd.yielded[k].values = <<lastOp'.value>>
             /\ \A u \in DOMAIN components : u # t => components'[u] = components[u]]_vars

C9_Witness ==
    /\ lastOp.op = "write_pass"
    /\ lastOp.result = "Ok"
    /\ Len(ReadPass(lastOp.type).yielded) >= 2
    /\ \E i \in 0..(next_index - 1) : Carries(i, "Value") /\ Carries(i, "Other")

(***************************************************************************)
(* References held by the caller.  SpecBorrow lets the caller keep what     *)
(* query_one_by_id, resource and resource_mut return and drop it later.     *)
(* Methods taking &mut self (insert, insert_resource) need live empty.      *)
(***************************************************************************)
MaxLive == 2

ResTypes == {"Clock"}

ResValues == {7}

ComponentTarget(t, index) == <<"component", t, index>>

ResourceTarget(t) == <<"resource", t, 0>>

LiveRef(target, mode) == [target |-> target, mode |-> mode]

OneRef(target, mode) == SetToBag({LiveRef(target, mode)})

RECURSIVE ItemRefsLoop(_, _, _)
\* The references inside the item Query::fetch returned for row index.
ItemRefsLoop(Q, index, i) ==
    IF i > Len(Q) THEN EmptyBag
    ELSE OneRef(ComponentTarget(Q[i].type, index), Q[i].mode) (+) ItemRefsLoop(Q, index, i + 1)

ItemRefs(Q, index) == ItemRefsLoop(Q, index, 1)

BorrowQueries ==
    {<<R("Value")>>, <<W("Value")>>, <<W("Other")>>,
     <<R("Value"), R("Other")>>, <<R("Value"), W("Value")>>}

\* ecs::Ecs::query_one_by_id: Q::fetch at id, no presence test before it.  A
\* panic in a later accessor unwinds and drops what the earlier ones borrowed.
QueryOneById(Q, id) ==
    /\ ~panicked
    /\ LET f == QueryFetch(components, Q, id)
       IN IF f.outcome = "Ok"
          THEN /\ BagCardinality(live) + Len(Q) <= MaxLive
               /\ components' = f.comps
               /\ live' = live (+) ItemRefs(Q, id)
               /\ UNCHANGED <<panicked, lastOp>>
          ELSE /\ panicked' = TRUE
               /\ lastOp' = [op |-> "query_one_by_id", result |-> f.outcome]
               /\ UNCHANGED <<components, live>>
    /\ UNCHANGED <<shared_resources, next_index, defined, sysVars, bitVars, pureVars,
                   archVars>>

\* Mutant: insert_resource keeps the value already stored for the type.
InsertResource_KeepFirst(t, v) ==
    /\ ~panicked
    /\ live = EmptyBag
    /\ shared_resources' = shared_resources @@ (t :> RefCellNew(v))
    /\ lastOp' = [op |-> "insert_resource", result |-> "Ok"]
    /\ UNCHANGED <<components, next_index, live, defined, panicked, sysVars, bitVars, pureVars,
                   archVars>>

\* ecs::Ecs::insert_resource.
InsertResource(t, v) ==
    /\ ~panicked
    /\ live = EmptyBag
    /\ shared_resources' = (t :> RefCellNew(v)) @@ shared_resources
    /\ lastOp' = [op |-> "insert_resource", result |-> "Ok"]
    /\ UNCHANGED <<components, next_index, live, defined, panicked, sysVars, bitVars, pureVars,
                   archVars>>

ResourceOutcome(t) ==
    IF t \notin DOMAIN shared_resources THEN "panic: no entry found for key"
    ELSE IF CanBorrow(shared_resources[t]) THEN "Ok"
    ELSE "panic: already mutably borrowed"

\* ecs::Ecs::resource.
Resource(t) ==
    /\ ~panicked
    /\ IF ResourceOutcome(t) = "Ok"
       THEN /\ BagCardinality(live) + 1 <= MaxLive
            /\ shared_resources' = [shared_resources EXCEPT ![t] = Borrowed(@, "R")]
            /\ live' = live (+) OneRef(ResourceTarget(t), "R")
            /\ UNCHANGED <<panicked, lastOp>>
       ELSE /\ panicked' = TRUE
            /\ lastOp' = [op |-> "resource", result |-> ResourceOutcome(t)]
            /\ UNCHANGED <<shared_resources, live>>
    /\ UNCHANGED <<components, next_index, defined, sysVars, bitVars, pureVars,
                   archVars>>

ResourceMutOutcome(t) ==
    IF t \notin DOMAIN shared_resources THEN "panic: unwrap on None"
    ELSE IF CanBorrowMut(shared_resources[t]) THEN "Ok"
    ELSE "panic: already borrowed"

\* ecs::Ecs::resource_mut.
ResourceMut(t) ==
    /\ ~panicked
    /\ IF ResourceMutOutcome(t) = "Ok"
       THEN /\ BagCardinality(live) + 1 <= MaxLive
            /\ shared_resources' = [shared_resources EXCEPT ![t] = Borrowed(@, "W")]
            /\ live' = live (+) OneRef(ResourceTarget(t), "W")
            /\ UNCHANGED <<panicked, lastOp>>
       ELSE /\ panicked' = TRUE
            /\ lastOp' = [op |-> "resource_mut", result |-> ResourceMutOutcome(t)]
            /\ UNCHANGED <<shared_resources, live>>
    /\ UNCHANGED <<components, next_index, defined, sysVars, bitVars, pureVars,
                   archVars>>

\* Drop of a Ref / RefMut the caller holds: the cell's flag is released.
DropRef(ref) ==
    /\ ~panicked
    /\ BagIn(ref, live)
    /\ live' = live (-) OneRef(ref.target, ref.mode)
    /\ IF ref.target[1] = "component"
       THEN /\ components' = AccessorRelease(components,
                                             [mode |-> ref.mode, type |-> ref.target[2]],
                                             ref.target[3])
            /\ UNCHANGED shared_resources
       ELSE /\ shared_resources' = [shared_resources EXCEPT ![ref.target[2]] =
                                       Released(@, ref.mode)]
            /\ UNCHANGED components
    /\ UNCHANGED <<next_index, defined, panicked, lastOp, sysVars, bitVars, pureVars,
                   archVars>>

BorrowDefinitions == {<<"Value">>, <<"Value", "Other">>}

NextBorrow ==
    \/ \E def \in BorrowDefinitions : ColInsert(def, SeedAt(next_index))
    \/ \E t \in ResTypes, v \in ResValues : InsertResource(t, v)
    \/ \E Q \in BorrowQueries, id \in 0..next_index : QueryOneById(Q, id)
    \/ \E t \in ResTypes : Resource(t)
    \/ \E t \in ResTypes : ResourceMut(t)
    \/ \E ref \in BagToSet(live) : DropRef(ref)

SpecBorrow == InitColsSpec /\ [][NextBorrow]_vars

\* The values a reference can refer to: the stored components and resources.
Targets ==
    {ComponentTarget(t, i) : t \in ColTypes, i \in 0..MaxEntities}
        \cup {ResourceTarget(t) : t \in ResTypes}

Readers(l, target) == CopiesIn(LiveRef(target, "R"), l)

Writers(l, target) == CopiesIn(LiveRef(target, "W"), l)

\* An acquisition of mode on target would break the discipline, given the
\* references l already live.
Breaks(l, target, mode) ==
    IF mode = "W" THEN Readers(l, target) + Writers(l, target) > 0
    ELSE Writers(l, target) > 0

\* Q::fetch at id meets a reference that is live or that it acquired itself.
QueryBreaks(Q, id) ==
    \E i \in 1..Len(Q) :
        Breaks(live (+) ItemRefsLoop(SubSeq(Q, 1, i - 1), id, 1),
               ComponentTarget(Q[i].type, id), Q[i].mode)

SharedOrExclusive ==
    \A target \in Targets :
        \/ Writers(live, target) = 0
        \/ Writers(live, target) = 1 /\ Readers(live, target) = 0

\* C7: the live references to each component or resource value are any number
\* of Reads or exactly one Write, and an acquisition that would break this panics
\* and hands out no reference.
C7_BorrowGuard ==
    /\ []SharedOrExclusive
    /\ [][/\ \A Q \in BorrowQueries, id \in 0..next_index :
                (QueryOneById(Q, id) /\ QueryBreaks(Q, id))
                    => (panicked' /\ live' = live)
          /\ \A t \in ResTypes :
                (Resource(t) /\ Breaks(live, ResourceTarget(t), "R"))
                    => (panicked' /\ live' = live)
          /\ \A t \in ResTypes :
                (ResourceMut(t) /\ Breaks(live, ResourceTarget(t), "W"))
                    => (panicked' /\ live' = live)]_vars

C7_Witness ==
    /\ panicked
    /\ lastOp.op = "query_one_by_id"
    /\ lastOp.result = "panic: already borrowed"
    /\ \E target \in Targets : Readers(live, target) = 2

(***************************************************************************)
(* SystemBundle (system.rs).  A system is a callable on &mut Ecs; the ones  *)
(* registered here are passes over query::<(W<Value>,)>().                  *)
(***************************************************************************)
MaxSystems == 2

MaxSteps == 1

SystemKinds == {"add35", "sub6", "set0"}

\* The loop body of each system: v.0 += 35, v.0 -= 6, v.0 = 0.
SystemBody(kind) ==
    IF kind = "add35" THEN AddBody(35)
    ELSE IF kind = "sub6" THEN AddBody(-6)
    ELSE SetBody(0)

\* (system)(ecs): the callable runs its pass on the Ecs it is given.
CallSystem(comps, count, kind) == ForEach(comps, count, <<W("Value")>>, SystemBody(kind))

RECURSIVE StepLoop(_, _, _, _, _)
\* for system in &mut self.systems { (system)(ecs) }, from the i-th system on.
\* calls is the history of the calls made: which system, on what, leaving what.
StepLoop(comps, count, syss, i, calls) ==
    IF i > Len(syss) THEN [outcome |-> "Ok", comps |-> comps, calls |-> calls]
    ELSE LET r == CallSystem(comps, count, syss[i])
         IN IF r.outcome # "Ok"
            THEN [outcome |-> r.outcome, comps |-> r.comps, calls |-> calls]
            ELSE StepLoop(r.comps, count, syss, i + 1,
                          Append(calls, [system |-> i, kind |-> syss[i],
                                         seen |-> comps, left |-> r.comps]))

\* Mutant: the systems run last to first.
step_Reversed(comps, count, syss) ==
    StepLoop(comps, count, [k \in 1..Len(syss) |-> syss[Len(syss) + 1 - k]], 1, <<>>)

\* SystemBundle::step.
step(comps, count, syss) == StepLoop(comps, count, syss, 1, <<>>)

\* SystemBundle::add_system.
AddSystem(kind) ==
    /\ ~panicked
    /\ Len(systems) < MaxSystems
    /\ systems' = Append(systems, kind)
    /\ lastOp' = [op |-> "add_system", result |-> "Ok"]
    /\ UNCHANGED <<components, shared_resources, next_index, live, defined, steps,
                   panicked, bitVars, pureVars,
                   archVars>>

\* system_bundle.step(&mut ecs): &mut Ecs, so no reference is live.
Step ==
    /\ ~panicked
    /\ live = EmptyBag
    /\ steps < MaxSteps
    /\ LET r == step(components, col_entity_count, systems)
       IN /\ components' = r.comps
          /\ panicked' = (r.outcome # "Ok")
          /\ lastOp' = [op |-> "step", result |-> r.outcome, calls |-> r.calls,
                        before |-> components]
    /\ steps' = steps + 1
    /\ UNCHANGED <<shared_resources, next_index, live, defined, systems, bitVars, pureVars,
                   archVars>>

\* The entities of tests::system_bundle_step, and one without a Value.
SysInserts ==
    {[def |-> <<"Value">>, v |-> 12], [def |-> <<"Value", "Other">>, v |-> 18],
     [def |-> <<"Other">>, v |-> 12]}

NextSys ==
    \/ \E e \in SysInserts : ColInsert(e.def, e.v)
    \/ \E kind \in SystemKinds : AddSystem(kind)
    \/ Step

SpecSys == InitColsSpec /\ [][NextSys]_vars

\* What a system of each kind makes of a Value.
KindEffect(kind, v) ==
    IF kind = "add35" THEN v + 35 ELSE IF kind = "sub6" THEN v - 6 ELSE 0

RECURSIVE InOrder(_, _, _)
\* The systems syss applied to v one after the other, from the i-th on.
InOrder(syss, i, v) ==
    IF i > Len(syss) THEN v ELSE InOrder(syss, i + 1, KindEffect(syss[i], v))

\* C8: one step calls each registered system once, in registration order, each
\* on the Ecs the previous one left; every Value ends as the systems applied in
\* that order make it, so add 35 then subtract 6 leaves each Value 29 higher.
C8_StepInOrder ==
    [][steps' = steps + 1 =>
          LET calls == lastOp'.calls
              n == Len(systems)
          IN /\ lastOp'.result = "Ok"
             /\ Len(calls) = n
             /\ \A k \in 1..n :
                   /\ calls[k].system = k
                   /\ calls[k].kind = systems[k]
                   /\ calls[k].seen = IF k = 1 THEN components ELSE calls[k - 1].left
             /\ components' = IF n = 0 THEN components ELSE calls[n].left
             /\ \A i \in 0..(next_index - 1) :
                   Carries(i, "Value") =>
                      /\ ValueAt(components', R("Value"), i)
                            = InOrder(systems, 1, ValueAt(components, R("Value"), i))
                      /\ systems = <<"add35", "sub6">> =>
                            ValueAt(components', R("Value"), i)
                               = ValueAt(components, R("Value"), i) + 29
             /\ \A u \in DOMAIN components : u # "Value" => components'[u] = components[u]]_vars

C8_Witness ==
    /\ lastOp.op = "step"
    /\ lastOp.result = "Ok"
    /\ systems = <<"add35", "sub6">>
    /\ \E i, j \in 0..(next_index - 1) :
          /\ Carries(i, "Value") /\ ~Carries(i, "Other")
          /\ Carries(j, "Value") /\ Carries(j, "Other")
          /\ ValueAt(components, R("Value"), i) = 41
          /\ ValueAt(components, R("Value"), j) = 47

(***************************************************************************)
(* The life of the buffers.  SpecAlloc lets the allocator choose the        *)
(* address of every buffer and ends with the Ecs being dropped.  A bundle   *)
(* of unit structs makes grow call alloc with a Layout of size 0, which is  *)
(* undefined: the call returns null (NonNull::new(..).unwrap() panics) or   *)
(* a block like any other.                                                  *)
(***************************************************************************)
AllocSignatures == {<<"Position", "Velocity">>, <<"Tag", "Position">>, <<"Marker">>}

\* The Ecs has been dropped; nothing runs on it afterwards.
Dropped == lastOp.op = "drop"

\* The archetype insert_one works on, before allocate_storage_for_entity.
EntryOf(sig) ==
    IF type_ids(sig) \in DOMAIN archetype_store
    THEN archetype_store[type_ids(sig)]
    ELSE ArchetypeNew(metadata(sig))

\* insert_one of sig would call alloc with a Layout of size 0.
ZeroSizedAlloc(sig) ==
    LET a == EntryOf(sig)
    IN /\ a.entity_count = a.capacity
       /\ compute_required_size_for_capacity(
              a, IF a.capacity = 0 THEN 1 ELSE a.capacity * 2).size = 0

\* insert_one, alloc returning base if the call allocates.
InsertOneAt(sig, s, base) ==
    /\ ~panicked
    /\ ~Dropped
    /\ Len(returned) < MaxEntities
    /\ LET r == insert_one(StoreAt(base), sig, BundleValue(sig, s))
       IN /\ archetype_store' = r.archetype_store
          /\ next_entity' = r.next_entity
          /\ heap' = r.heap
          /\ returned' = Append(returned, r.entity)
          /\ inserted' = (r.entity :> [sig |-> sig, vals |-> BundleValue(sig, s)]) @@ inserted
          /\ lastOp' = [op |-> "insert_one", sig |-> sig, result |-> "Ok"]
    /\ UNCHANGED <<changed, panicked, colVars>>

\* insert_one, alloc of size 0 returning null: grow panics before it assigns
\* any field, after or_insert put the archetype in the store.
InsertOneNull(sig) ==
    /\ ~panicked
    /\ ~Dropped
    /\ Len(returned) < MaxEntities
    /\ ZeroSizedAlloc(sig)
    /\ archetype_store' = (type_ids(sig) :> EntryOf(sig)) @@ archetype_store
    /\ panicked' = TRUE
    /\ lastOp' = [op |-> "insert_one", sig |-> sig, result |-> "panic: unwrap on None"]
    /\ UNCHANGED <<next_entity, heap, returned, inserted, changed, colVars>>

RECURSIVE DropAll(_, _)
\* Drop of the HashMap: every archetype is dropped, in no particular order.
DropAll(store, h) ==
    IF DOMAIN store = {} THEN h
    ELSE LET k == CHOOSE k \in DOMAIN store : TRUE
         IN DropAll([x \in DOMAIN store \ {k} |-> store[x]], drop(store[k], h))

\* The Ecs goes out of scope.
DropEcs ==
    /\ ~panicked
    /\ ~Dropped
    /\ heap' = DropAll(archetype_store, heap)
    /\ archetype_store' = <<>>
    /\ lastOp' = [op |-> "drop", sig |-> <<>>, result |-> "Ok"]
    /\ UNCHANGED <<next_entity, returned, inserted, changed, panicked, colVars>>

NextAlloc ==
    \/ \E sig \in AllocSignatures, s \in Seeds :
          \E base \in BaseAddresses(align_of(sig[1])) : InsertOneAt(sig, s, base)
    \/ \E sig \in AllocSignatures : InsertOneNull(sig)
    \/ DropEcs

SpecAlloc == InitArchSpec /\ [][NextAlloc]_vars

\* The buffers that are the current buffer of an archetype.
CurrentBuffers ==
    {archetype_store[sig].data : sig \in {x \in DOMAIN archetype_store :
                                             archetype_store[x].capacity > 0}}

\* C11: every buffer an archetype allocated is released exactly once, the old
\* one in grow and the current one when the archetype is dropped; none is
\* released twice, none is left after the drop, and dropping an archetype that
\* never allocated releases nothing.
C11_ReleasedExactlyOnce ==
    /\ \A k \in DOMAIN heap :
          /\ heap[k].released <= 1
          /\ heap[k].live <=> heap[k].released = 0
    /\ ~Dropped => \A k \in DOMAIN heap : heap[k].live <=> k \in CurrentBuffers
    /\ Dropped => \A k \in DOMAIN heap : heap[k].released = 1
    /\ \A sig \in AllocSignatures : drop(ArchetypeNew(metadata(sig)), heap) = heap

\* The ordered signatures given to insert_one so far.
InsertedSignatures == {inserted[id].sig : id \in DOMAIN inserted}

\* C12: the archetypes are exactly the distinct ordered type lists inserted so
\* far, one each, holding the entities inserted with that very list; the same
\* types in another order make another archetype, and no archetype is removed.
C12_KeyedByDeclarationOrder ==
    /\ [](/\ DOMAIN archetype_store = InsertedSignatures
          /\ Cardinality(DOMAIN archetype_store) = Cardinality(InsertedSignatures)
          /\ \A sig \in DOMAIN archetype_store :
                DOMAIN archetype_store[sig].stored_entities
                   = {id \in DOMAIN inserted : inserted[id].sig = sig})
    /\ [][DOMAIN archetype_store \subseteq DOMAIN archetype_store']_vars

C12_Witness ==
    /\ {<<"Tag", "Position">>, <<"Position", "Tag">>} \subseteq DOMAIN archetype_store
    /\ Cardinality(DOMAIN archetype_store) = 2
    /\ entity_count = 3

RECURSIVE PowerOfTwoFrom(_, _)
\* The smallest power of two that is >= k and >= p, p a power of two.
PowerOfTwoFrom(p, k) == IF p >= k THEN p ELSE PowerOfTwoFrom(2 * p, k)

\* The capacity after one more allocate_storage_for_entity on archetype a.
CapacityAfterNext(a) ==
    allocate_storage_for_entity(a, heap, next_entity, MallocBase).arch.capacity

\* C13: a new archetype has capacity 0; an archetype that made k >= 1
\* allocations has the smallest power of two >= k as its capacity and no more
\* used rows than that; the next allocation changes the capacity only when the
\* used rows equal it, to 1 from 0 and to its double otherwise; and no other
\* operation changes a capacity.
C13_GeometricCapacity ==
    /\ [](/\ \A sig \in LookupSignatures :
                /\ ArchetypeNew(metadata(sig)).capacity = 0
                /\ CapacityAfterNext(ArchetypeNew(metadata(sig))) = 1
          /\ \A sig \in DOMAIN archetype_store :
                LET a == archetype_store[sig]
                IN /\ a.entity_count >= 1
                   /\ a.capacity = PowerOfTwoFrom(1, a.entity_count)
                   /\ a.entity_count <= a.capacity
                   /\ CapacityAfterNext(a) = IF a.entity_count = a.capacity
                                             THEN 2 * a.capacity ELSE a.capacity)
    /\ [][\A sig \in DOMAIN archetype_store :
             archetype_store'[sig].capacity # archetype_store[sig].capacity
                => lastOp'.op = "insert_one"]_vars

C13_Witness ==
    /\ Len(heap) = 3
    /\ \E sig \in DOMAIN archetype_store :
          /\ archetype_store[sig].entity_count = 3
          /\ archetype_store[sig].capacity = 4

\* The entity indices that carry every type of Q.
Carriers(Q) == {i \in 0..(next_index - 1) : CarriesAll(i, Q)}

\* What C14 says query_one::<Q>() returns.
LowestCarrier(r, Q) ==
    /\ r.outcome = "Ok"
    /\ IF Carriers(Q) = {} THEN r.result = None
       ELSE LET i == CHOOSE i \in Carriers(Q) : \A j \in Carriers(Q) : i <= j
            IN r.result = Some([index |-> i,
                                values |-> [k \in 1..Len(Q) |-> ValueAt(components, Q[k], i)]])
    /\ (\E k \in 1..Len(Q) : Q[k].type \notin DOMAIN components) => r.result = None

\* C14 (amended): for a Q in which no type is named by a W accessor together
\* with another accessor, query_one::<Q>() returns Some((i, refs)) with i the
\* lowest entity index that carries every type of Q and refs referring to the
\* components of i, and None when no index matches or a type has no column.
C14_QueryOneLowest ==
    \A Q \in Queries :
        NoOverlap(Q) => LowestCarrier(query_one(components, col_entity_count, Q), Q)

\* C14 as stated, for every Q: refuted by (W<Value>, R<Value>), which panics in
\* the fetch of the row it found.
C14_AnyQueryOne ==
    \A Q \in Queries : LowestCarrier(query_one(components, col_entity_count, Q), Q)

C14_Witness ==
    /\ next_index = 3
    /\ Carriers(<<R("Value"), R("Other")>>) = {1, 2}
    /\ query_one(components, col_entity_count, <<R("Value"), R("Other")>>).result[1].index = 1

\* The panics of a fetch of something that is not there.
AbsentPanics ==
    {"panic: no entry found for key", "panic: index out of bounds", "panic: unwrap on None"}

\* The panics of RefCell::borrow and RefCell::borrow_mut.
BorrowPanics == {"panic: already mutably borrowed", "panic: already borrowed"}

\* Entity id exists and was given a component of every type of Q.
Present(Q, id) == id < next_index /\ CarriesAll(id, Q)

\* The component of type t given to entity id at its insert.
GivenValue(id, t) ==
    LET d == defined[id + 1]
    IN d.vals[CHOOSE pos \in 1..Len(d.def) : d.def[pos] = t]

\* C15 (amended): query_one_by_id::<Q>(id) makes no presence test.  It returns
\* references to the components of entity id itself when id carries every type
\* of Q and the fetch meets no conflicting borrow; when a component is absent
\* at id, id is no entity or a type has no column, the call panics in the fetch
\* and returns nothing.
C15_NoPresenceTest ==
    /\ [](\A Q \in BorrowQueries, id \in 0..next_index :
             LET f == QueryFetch(components, Q, id)
             IN IF Present(Q, id)
                THEN IF QueryBreaks(Q, id) THEN f.outcome \in BorrowPanics
                     ELSE /\ f.outcome = "Ok"
                          /\ \A k \in 1..Len(Q) :
                                ValueAt(f.comps, Q[k], id) = GivenValue(id, Q[k].type)
                ELSE /\ f.outcome \in AbsentPanics \cup BorrowPanics
                     /\ ~QueryBreaks(Q, id) => f.outcome \in AbsentPanics)
    /\ [][\A Q \in BorrowQueries, id \in 0..next_index :
             (QueryOneById(Q, id) /\ ~Present(Q, id)) => (panicked' /\ live' = live)]_vars

\* C15 as stated: references are returned whenever id carries every type of Q.
\* Refuted by (R<Value>, W<Value>), and by any fetch that meets a live borrow.
C15_ReturnsWheneverPresent ==
    \A Q \in BorrowQueries, id \in 0..next_index :
        Present(Q, id) => QueryFetch(components, Q, id).outcome = "Ok"

C15_Witness ==
    /\ panicked
    /\ lastOp.op = "query_one_by_id"
    /\ lastOp.result = "panic: unwrap on None"
    /\ next_index = 2
    /\ Present(<<R("Value"), R("Other")>>, 1)
    /\ ~Present(<<R("Value"), R("Other")>>, 0)

\* Entity i is in no column of comps: no bit, no value.
Cleared(comps, i) ==
    \A t \in DOMAIN comps :
        /\ ~bit(comps[t].entities_bitset, i)
        /\ comps[t].component_data[i + 1] = None

\* Entity i is in the result of no query on the store comps of count entities.
MatchesNoQuery(comps, count, i) ==
    \A Q \in Queries :
        /\ \A k \in 1..Len(ForEach(comps, count, Q, ReadBody).yielded) :
              ForEach(comps, count, Q, ReadBody).yielded[k].index # i
        /\ query_one(comps, count, Q).result # None
              => query_one(comps, count, Q).result[1].index # i
        /\ i \notin matching_ids(count, comps, Q)

\* C16: delete_by_query::<Q>() leaves every entity that carried every type of
\* Q without a presence bit and without a value in every column, those of
\* types Q does not name included, so that no query matches it any more; the
\* other entities are left as they were.
C16_DeleteClearsEveryColumn ==
    [][\A Q \in Queries :
          DeleteByQuery(Q) =>
             /\ ~panicked'
             /\ DOMAIN components' = DOMAIN components
             /\ \A i \in Carriers(Q) :
                   Cleared(components', i) /\ MatchesNoQuery(components', next_index', i)
             /\ \A i \in (0..(next_index - 1)) \ Carriers(Q) :
                   \A t \in DOMAIN components :
                      /\ components'[t].component_data[i + 1] = components[t].component_data[i + 1]
                      /\ bit(components'[t].entities_bitset, i) = bit(components[t].entities_bitset, i)]_vars

C16_Witness ==
    /\ lastOp.op = "delete_by_query"
    /\ lastOp.q = <<R("Value")>>
    /\ lastOp.ids = {1}
    /\ next_index = 3
    /\ Carries(0, "Other") /\ Carries(2, "Other")
    /\ Cleared(components, 1)
    /\ Len(QueryResult(<<R("Other")>>).yielded) = 2

\* C18: a new Ecs has entity_count 0; every insert returns the entity_count
\* there was, which is the number of inserts made before it, and adds one to
\* it; no other operation changes entity_count, so no index is returned twice.
C18_IndexNeverReused ==
    /\ [](lastOp.op = "new" => col_entity_count = 0)
    /\ [](col_entity_count = Len(defined))
    /\ [][/\ next_index' >= next_index
          /\ \A def \in Definitions :
                ColInsert(def, SeedAt(next_index)) =>
                   /\ lastOp'.index = Len(defined)
                   /\ next_index' = next_index + 1
          /\ (\E Q \in Queries : DeleteByQuery(Q)) => next_index' = next_index
          /\ (\E t \in ColTypes, i \in 0..next_index : RemoveComponent(t, i))
                => next_index' = next_index]_vars

C18_Witness ==
    /\ lastOp.op = "insert"
    /\ lastOp.index = 2
    /\ next_index = 3
    /\ Carriers(<<R("Value")>>) \cup Carriers(<<R("Other")>>) = {2}

(***************************************************************************)
(* The BitSet trait on its own: SpecBits makes set_bit and unset_bit calls  *)
(* with in-range indices on a [u64; 1024] and on a u64.                     *)
(***************************************************************************)
\* Indices at both ends of a word, of the array and of the u64.
ArrayIndices == {0, 63, 64, 65535}

WordIndices == {0, 1, 63}

ArraySetBit(i) ==
    /\ bit_array' = set_bit(bit_array, i)
    /\ bit_calls' = [bit_calls EXCEPT !.array = (i :> "set_bit") @@ @]
    /\ UNCHANGED <<bit_word, components, shared_resources, next_index, live, defined,
                   sysVars, pureVars, archVars, panicked, lastOp>>

ArrayUnsetBit(i) ==
    /\ bit_array' = unset_bit(bit_array, i)
    /\ bit_calls' = [bit_calls EXCEPT !.array = (i :> "unset_bit") @@ @]
    /\ UNCHANGED <<bit_word, components, shared_resources, next_index, live, defined,
                   sysVars, pureVars, archVars, panicked, lastOp>>

WordSetBit(i) ==
    /\ bit_word' = u64_set_bit(bit_word, i)
    /\ bit_calls' = [bit_calls EXCEPT !.word = (i :> "set_bit") @@ @]
    /\ UNCHANGED <<bit_array, components, shared_resources, next_index, live, defined,
                   sysVars, pureVars, archVars, panicked, lastOp>>

WordUnsetBit(i) ==
    /\ bit_word' = u64_unset_bit(bit_word, i)
    /\ bit_calls' = [bit_calls EXCEPT !.word = (i :> "unset_bit") @@ @]
    /\ UNCHANGED <<bit_array, components, shared_resources, next_index, live, defined,
                   sysVars, pureVars, archVars, panicked, lastOp>>

NextBits ==
    \/ \E i \in ArrayIndices : ArraySetBit(i)
    \/ \E i \in ArrayIndices : ArrayUnsetBit(i)
    \/ \E i \in WordIndices : WordSetBit(i)
    \/ \E i \in WordIndices : WordUnsetBit(i)

SpecBits == InitColsSpec /\ [][NextBits]_vars

\* The most recent call on index i, by the history calls, was set_bit.
LastWasSet(calls, i) == i \in DOMAIN calls /\ calls[i] = "set_bit"

\* The indices called, and their neighbours.
ArrayProbes == ArrayIndices \cup {1, 62, 65, 127, 65534}

WordProbes == 0..(WordBits - 1)

\* C17: on the [u64] array and on the u64, bit(i) is true exactly when the last
\* call on i was set_bit, no other bit is set, and bit_count is the number of
\* words times 64 whatever was called.
C17_BitSetLastCallWins ==
    /\ \A i \in ArrayProbes : bit(bit_array, i) <=> LastWasSet(bit_calls.array, i)
    /\ SetBits(bit_array) = {i \in ArrayIndices : LastWasSet(bit_calls.array, i)}
    /\ bit_count(bit_array) = BitsetWords * 64
    /\ \A i \in WordProbes : u64_bit(bit_word, i) <=> LastWasSet(bit_calls.word, i)
    /\ u64_bit_count(bit_word) = 1 * 64

C17_Witness ==
    /\ bit_calls.array = (0 :> "unset_bit") @@ (63 :> "set_bit") @@ (64 :> "set_bit")
                            @@ (65535 :> "set_bit")
    /\ bit_calls.word = (0 :> "set_bit") @@ (1 :> "unset_bit") @@ (63 :> "set_bit")
    /\ bit(bit_array, 63) /\ ~bit(bit_array, 0)
    /\ bit_word = {0, 63}

(***************************************************************************)
(* Resources on their own: SpecRes inserts resources of two types and       *)
(* entities, and takes and drops references to the resources.               *)
(***************************************************************************)
SingletonTypes == {"Clock", "Gravity"}

SingletonValues == {7, 9}

\* What a Ref / RefMut returned for type t dereferences to: the downcast of the
\* box stored under t's TypeId.
ResourceValue(resources, t) == resources[t].value

NextRes ==
    \/ \E def \in BorrowDefinitions : ColInsert(def, SeedAt(next_index))
    \/ \E t \in SingletonTypes, v \in SingletonValues : InsertResource(t, v)
    \/ \E t \in SingletonTypes : Resource(t)
    \/ \E t \in SingletonTypes : ResourceMut(t)
    \/ \E ref \in BagToSet(live) : DropRef(ref)

SpecRes == InitColsSpec /\ [][NextRes]_vars

\* The step hands out a reference of the given mode to the resource of type t.
HandsOut(t, mode) == live' = live (+) OneRef(ResourceTarget(t), mode)

\* C19: insert_resource(v) for T makes v the value resource::<T>() and
\* resource_mut::<T>() refer to, replacing any earlier one, and leaves every
\* other type's resource as it was; every other step (inserting entities,
\* taking or dropping references) leaves the value of every resource as it was;
\* a reference handed out for T is one to T's entry.
C19_ResourceSingletons ==
    [][/\ \A t \in SingletonTypes, v \in SingletonValues :
             InsertResource(t, v) =>
                 /\ ResourceValue(shared_resources', t) = v
                 /\ ResourceOutcome(t)' = "Ok"
                 /\ ResourceMutOutcome(t)' = "Ok"
                 /\ \A u \in DOMAIN shared_resources' \ {t} :
                        /\ u \in DOMAIN shared_resources
                        /\ shared_resources'[u] = shared_resources[u]
       /\ (\A t \in SingletonTypes, v \in SingletonValues : ~InsertResource(t, v)) =>
               /\ DOMAIN shared_resources' = DOMAIN shared_resources
               /\ \A u \in DOMAIN shared_resources :
                      ResourceValue(shared_resources', u) = ResourceValue(shared_resources, u)
       /\ \A t \in SingletonTypes :
               /\ (Resource(t) /\ ~panicked') => HandsOut(t, "R")
               /\ (ResourceMut(t) /\ ~panicked') => HandsOut(t, "W")]_vars

\* Clock was inserted twice and Gravity once, entities were inserted, and a
\* reference to each resource is held: the latest Clock and the Gravity.
C19_Witness ==
    /\ DOMAIN shared_resources = SingletonTypes
    /\ ResourceValue(shared_resources, "Clock") = 9
    /\ ResourceValue(shared_resources, "Gravity") = 7
    /\ next_index >= 1
    /\ BagIn(LiveRef(ResourceTarget("Clock"), "W"), live)
    /\ BagIn(LiveRef(ResourceTarget("Gravity"), "R"), live)

\* The absolute address, modulo MaxAlign, at which column type_index of
\* archetype a starts: the base alloc returned plus the column's offset.
ColumnAddress(a, h, type_index) == (h[a.data].base + a.type_offsets[type_index]) % MaxAlign

\* C20: for every archetype that has a buffer, every column starts at an
\* address that is a multiple of the column type's alignment, whatever address
\* alloc returned for the first type's alignment.
C20_ColumnsAligned ==
    \A ids \in DOMAIN archetype_store :
        LET a == archetype_store[ids]
        IN a.capacity > 0 =>
               \A i \in 1..Len(a.types_metadata) :
                   ColumnAddress(a, heap, i) % a.types_metadata[i].align = 0

(***************************************************************************)
(* Rows and layout of an archetype.                                        *)
(***************************************************************************)
\* The entities stored in the archetype keyed ids, in the order of their inserts.
StoredInOrder(ids) == SelectSeq(returned, LAMBDA e : type_ids(inserted[e].sig) = ids)

\* C21: the k-th entity stored in an archetype (k from 0) is at row k, so the
\* entity-to-row map is injective with range 0..entity_count-1, and no step
\* (a growth, a later insert, a lookup) changes the row of a stored entity.
C21_RowAssignment ==
    /\ [](\A ids \in DOMAIN archetype_store :
              LET a == archetype_store[ids]
                  order == StoredInOrder(ids)
              IN /\ Len(order) = a.entity_count
                 /\ DOMAIN a.stored_entities = {order[k] : k \in 1..Len(order)}
                 /\ \A k \in 1..Len(order) : data_index_for_entity(a, order[k]) = k - 1
                 /\ {data_index_for_entity(a, e) : e \in DOMAIN a.stored_entities}
                        = 0..(a.entity_count - 1)
                 /\ \A e, f \in DOMAIN a.stored_entities :
                        data_index_for_entity(a, e) = data_index_for_entity(a, f) => e = f)
    /\ [][\A ids \in DOMAIN archetype_store :
              /\ ids \in DOMAIN archetype_store'
              /\ \A e \in DOMAIN archetype_store[ids].stored_entities :
                     /\ e \in DOMAIN archetype_store'[ids].stored_entities
                     /\ data_index_for_entity(archetype_store'[ids], e)
                            = data_index_for_entity(archetype_store[ids], e)]_vars

\* Three entities in one archetype: it grew twice after its first row was
\* assigned.
C21_Witness ==
    \E ids \in DOMAIN archetype_store :
        /\ archetype_store[ids].entity_count = 3
        /\ archetype_store[ids].capacity = 4
        /\ data_index_for_entity(archetype_store[ids], returned[1]) = 0
        /\ data_index_for_entity(archetype_store[ids], returned[3]) = 2

\* The capacities compute_required_size_for_capacity is applied to.
MaxCapacity == 8

\* The bytes of the slot of row in column type_index, as component_ptr and
\* the copy of data_size bytes address them, under the offsets type_offsets.
SlotBytes(a, type_offsets, type_index, row) ==
    LET data_size == a.types_metadata[type_index].size
        ptr == component_ptr([a EXCEPT !.type_offsets = type_offsets], row, data_size,
                             type_index)
    IN ptr..(ptr + data_size - 1)

\* The bytes of column type_index for capacity rows.
ColumnBytes(a, type_offsets, type_index, capacity) ==
    type_offsets[type_index]
        ..(type_offsets[type_index] + a.types_metadata[type_index].size * capacity - 1)

\* lay is a layout of a's columns for capacity rows: in signature order, each
\* offset the running total rounded up to the alignment, no overlap, the last
\* column ending at the size, every slot inside the buffer and its own column.
LaidOut(a, capacity, lay) ==
    LET tm == a.types_metadata
        n == Len(tm)
        end(i) == IF i = 0 THEN 0 ELSE lay.type_offsets[i] + tm[i].size * capacity
    IN /\ Len(lay.type_offsets) = n
       /\ \A i \in 1..n :
              /\ lay.type_offsets[i] % tm[i].align = 0
              /\ lay.type_offsets[i] >= end(i - 1)
              /\ lay.type_offsets[i] - end(i - 1) < tm[i].align
       /\ \A i \in 1..(n - 1) : end(i) <= lay.type_offsets[i + 1]
       /\ lay.size = end(n)
       /\ \A i \in 1..n, row \in 0..(capacity - 1) :
              /\ SlotBytes(a, lay.type_offsets, i, row) \subseteq 0..(lay.size - 1)
              /\ SlotBytes(a, lay.type_offsets, i, row)
                     \subseteq ColumnBytes(a, lay.type_offsets, i, capacity)
              /\ \A k \in 1..n :
                     k # i => SlotBytes(a, lay.type_offsets, i, row)
                                  \cap ColumnBytes(a, lay.type_offsets, k, capacity) = {}

\* C22: for every archetype of the store and every capacity up to MaxCapacity,
\* compute_required_size_for_capacity lays the columns out in signature order
\* without overlap, and the layout the archetype holds is the one of its
\* capacity, its buffer being of that size.
C22_ColumnLayout ==
    \A ids \in DOMAIN archetype_store :
        LET a == archetype_store[ids]
        IN /\ \A capacity \in 0..MaxCapacity :
                  LaidOut(a, capacity, compute_required_size_for_capacity(a, capacity))
           /\ a.capacity > 0 =>
                  /\ LaidOut(a, a.capacity, [size |-> a.size, type_offsets |-> a.type_offsets])
                  /\ Len(heap[a.data].bytes) = a.size

\* A (Tag, Position) archetype of capacity 2: two bytes of padding between the
\* columns; and an archetype of another signature.
C22_Witness ==
    /\ <<"Tag", "Position">> \in DOMAIN archetype_store
    /\ archetype_store[<<"Tag", "Position">>].capacity = 2
    /\ archetype_store[<<"Tag", "Position">>].type_offsets = <<0, 4>>
    /\ archetype_store[<<"Tag", "Position">>].size = 20
    /\ Cardinality(DOMAIN archetype_store) = 2

\* The buffer, offsets, capacity and size of archetype a belong to one layout:
\* the offsets and the size are those computed for the capacity, and the buffer
\* is a live one of that size (none when the capacity is 0).
OneLayout(a, h) ==
    /\ [size |-> a.size, type_offsets |-> a.type_offsets]
           = compute_required_size_for_capacity(a, a.capacity)
    /\ IF a.capacity = 0 THEN a.data = Dangling
       ELSE /\ a.data \in DOMAIN h
            /\ h[a.data].live
            /\ h[a.data].size = a.size
            /\ Len(h[a.data].bytes) = a.size

\* C23: in every state between two operations, and after one that panicked in
\* grow, every archetype's buffer, offsets, capacity and size belong to one
\* layout, no two archetypes share a buffer, and the rows read through the
\* archetype's offsets from its buffer are the bundles that were inserted.
C23_GrowthAtomic ==
    /\ \A ids \in DOMAIN archetype_store : OneLayout(archetype_store[ids], heap)
    /\ \A ids, other \in DOMAIN archetype_store :
           (archetype_store[ids].capacity > 0 /\ archetype_store[other].capacity > 0
               /\ archetype_store[ids].data = archetype_store[other].data) => ids = other
    /\ \A id \in DOMAIN inserted :
           type_ids(inserted[id].sig) \in DOMAIN archetype_store
               => entity(inserted[id].sig, id) = inserted[id].vals

\* An archetype grew from capacity 1 to 2 with a row to migrate, its old buffer
\* released, next to an archetype that never grew.
C23_Witness ==
    /\ \E ids \in DOMAIN archetype_store :
           /\ archetype_store[ids].capacity = 2
           /\ archetype_store[ids].entity_count = 2
           /\ archetype_store[ids].size > 0
    /\ \E ids \in DOMAIN archetype_store : archetype_store[ids].capacity = 1
    /\ \E k \in DOMAIN heap : ~heap[k].live

(***************************************************************************)
(* Consistency of the bitset-column store.                                 *)
(***************************************************************************)
\* The store of one type is consistent for count entities: one slot per index,
\* a value in slot i exactly when bit i is set, no bit at or above count.
ConsistentStore(store, count) ==
    /\ Len(store.component_data) = count
    /\ \A i \in 0..(count - 1) :
           (store.component_data[i + 1] # None) <=> bit(store.entities_bitset, i)
    /\ SetBits(store.entities_bitset) \subseteq 0..(count - 1)

\* C24: after any sequence of insert, remove_component and delete_by_query,
\* every column store is consistent for entity_count; and a store created by
\* the insert that first uses its type, at index i, has slots 0..i with the
\* inserted value in slot i and nothing below.
C24_StoreConsistency ==
    /\ [](\A t \in DOMAIN components : ConsistentStore(components[t], col_entity_count))
    /\ [][\A def \in Definitions :
              ColInsert(def, SeedAt(next_index)) =>
                  \A pos \in 1..Len(def) :
                      def[pos] \notin DOMAIN components =>
                          LET store == components'[def[pos]]
                          IN /\ Len(store.component_data) = next_index + 1
                             /\ store.component_data[next_index + 1]
                                    = Some(RefCellNew(DefinitionValues(def, SeedAt(next_index))[pos]))
                             /\ \A i \in 0..(next_index - 1) :
                                    /\ store.component_data[i + 1] = None
                                    /\ ~bit(store.entities_bitset, i)
                             /\ bit(store.entities_bitset, next_index)]_vars

\* The Other store was created by the third insert, after a component was
\* removed from the Value store: its only value is in slot 2.
C24_Witness ==
    /\ lastOp.op = "insert"
    /\ lastOp.index = 2
    /\ DOMAIN components = {"Value", "Other"}
    /\ SetBits(components["Other"].entities_bitset) = {2}
    /\ components["Other"].component_data[3] # None
    /\ SetBits(components["Value"].entities_bitset) = {1}

\* The rows of the list QueryIterator::new materializes for Q on the store.
MaterializedRows(comps, count, Q) ==
    LET it == QueryIteratorNew(count, comps, Q)
    IN {it.matching_entities[k] : k \in 1..Len(it.matching_entities)}

\* The rows whose bit or value differs between the stores before and after.
ChangedRows(before, after, count) ==
    {i \in 0..(count - 1) :
        \E t \in DOMAIN before :
            \/ after[t].component_data[i + 1] # before[t].component_data[i + 1]
            \/ bit(after[t].entities_bitset, i) # bit(before[t].entities_bitset, i)}

\* C25: in every state, for every Q, the set Query::matching_ids computes is
\* the set of rows QueryIterator::new materializes, which are the rows
\* query::<Q>() yields when it runs to its end; and the rows a delete_by_query
\* step deletes are the rows of that set, taken just before the step.
C25_DeleteMatchesQuery ==
    /\ [](\A Q \in Queries :
              /\ matching_ids(col_entity_count, components, Q)
                     = MaterializedRows(components, col_entity_count, Q)
              /\ QueryResult(Q).outcome = "Ok" =>
                     matching_ids(col_entity_count, components, Q)
                         = {QueryResult(Q).yielded[k].index :
                                k \in 1..Len(QueryResult(Q).yielded)})
    /\ [][\A Q \in Queries :
              DeleteByQuery(Q) =>
                  /\ lastOp'.ids = MaterializedRows(components, col_entity_count, Q)
                  /\ ChangedRows(components, components', col_entity_count)
                         = MaterializedRows(components, col_entity_count, Q)]_vars

\* Of three entities, delete_by_query::<(R<Value>, R<Other>)> deleted the one
\* that carried both types and left one that carries Value only.
C25_Witness ==
    /\ lastOp.op = "delete_by_query"
    /\ lastOp.q = <<R("Value"), R("Other")>>
    /\ lastOp.ids = {1}
    /\ next_index = 3
    /\ bit(components["Value"].entities_bitset, 0)
    /\ ~bit(components["Other"].entities_bitset, 0)
    /\ bit(components["Other"].entities_bitset, 2)

(***************************************************************************)
(* Lookups of entities in an archetype they are not in.                    *)
(***************************************************************************)
\* id was returned by an insert of a bundle of exactly the signature sig.
InsertedWith(sig, id) == id \in DOMAIN inserted /\ inserted[id].sig = sig

\* C26: when the archetype of CB exists and id was not inserted with exactly
\* the signature CB (it is in another archetype, or was never issued),
\* entity::<CB>(id) and entity_mut::<CB>(id) fail, by the panic of the row
\* lookup, and return no reference; an id in the row map of an archetype is
\* one inserted with that signature.
C26_NoForeignRow ==
    /\ [](\A sig \in LookupSignatures, id \in 0..next_entity :
              (type_ids(sig) \in DOMAIN archetype_store /\ ~InsertedWith(sig, id))
                  => /\ LookupOutcome(sig, id) = "panic: key not found"
                     /\ id \notin DOMAIN archetype_store[type_ids(sig)].stored_entities)
    /\ [][\A sig \in LookupSignatures, id \in 0..next_entity :
              (/\ Entity(sig, id) \/ EntityMut(sig, id)
               /\ type_ids(sig) \in DOMAIN archetype_store
               /\ ~InsertedWith(sig, id))
                  => /\ panicked'
                     /\ lastOp'.result = "panic: key not found"
                     /\ heap' = heap]_vars

\* entity_mut named the bundle type of one archetype with an id that lives in
\* another, and failed.
C26_Witness ==
    /\ panicked
    /\ lastOp.op = "entity_mut"
    /\ lastOp.result = "panic: key not found"
    /\ type_ids(lastOp.sig) \in DOMAIN archetype_store
    /\ archetype_store[type_ids(lastOp.sig)].entity_count >= 1
    /\ \E id \in DOMAIN inserted : inserted[id].sig # lastOp.sig

(***************************************************************************)
(* The order in which query::<Q>() yields.                                 *)
(***************************************************************************)
\* C27: query::<Q>() run to its end yields its items in ascending order of
\* entity index, the order of the materialized row list, and its first item is
\* the row query_one::<Q>() returns.
C27_AscendingOrder ==
    \A Q \in Queries :
        LET r == QueryResult(Q)
            one == query_one(components, col_entity_count, Q)
        IN (r.outcome = "Ok" /\ one.outcome = "Ok") =>
               /\ \A j, k \in 1..Len(r.yielded) :
                      j < k => r.yielded[j].index < r.yielded[k].index
               /\ r.yielded # <<>> =>
                      /\ one.result # None
                      /\ one.result[1].index = r.yielded[1].index

(***************************************************************************)
(* What delete_by_query leaves alone.                                      *)
(***************************************************************************)
\* The columns of row i, bit and value, in the store comps.
RowOf(comps, i) ==
    [t \in DOMAIN comps |->
        [present |-> bit(comps[t].entities_bitset, i), value |-> comps[t].component_data[i + 1]]]

\* C28: a delete_by_query::<Q>() step changes nothing but the matched rows:
\* every entity that did not carry every type of Q keeps its bits and values in
\* all columns, entity_count, the set of column stores, the length of every
\* column and all resources are as before; and when a type requested by Q has
\* no column the store is left exactly as it was.
C28_DeleteFrame ==
    [][\A Q \in Queries :
          DeleteByQuery(Q) =>
             /\ ~panicked'
             /\ \A i \in (0..(next_index - 1)) \ Carriers(Q) :
                    RowOf(components', i) = RowOf(components, i)
             /\ next_index' = next_index
             /\ DOMAIN components' = DOMAIN components
             /\ \A t \in DOMAIN components :
                    Len(components'[t].component_data) = Len(components[t].component_data)
             /\ shared_resources' = shared_resources
             /\ (\E k \in 1..Len(Q) : Q[k].type \notin DOMAIN components)
                    => components' = components]_vars

\* A delete matched one of three entities and left the two others, each
\* carrying one of the two types, in place.
C28_Witness ==
    /\ lastOp.op = "delete_by_query"
    /\ lastOp.q = <<R("Value"), R("Other")>>
    /\ lastOp.ids = {2}
    /\ next_index = 3
    /\ RowOf(components, 0)["Value"].present
    /\ RowOf(components, 1)["Other"].present
    /\ ~RowOf(components, 1)["Value"].present

(***************************************************************************)
(* align_value on its own: SpecAlign calls it with values from 0 up, values *)
(* at the top of usize, and power-of-two alignments, without overflow.      *)
(***************************************************************************)
MaxAlignInput == 40

Alignments == {1, 2, 4, 8, 16}

AlignInputs == (0..MaxAlignInput) \cup ((UsizeMax - 33)..UsizeMax)

\* let r = align_value(value, alignment), value + alignment - 1 not overflowing.
AlignValue(value, alignment) ==
    /\ value + alignment - 1 <= UsizeMax
    /\ align_args' = <<value, alignment>>
    /\ align_result' = align_value(value, alignment)
    /\ UNCHANGED <<components, shared_resources, next_index, live, defined, sysVars, bitVars,
                   input_state, archVars, panicked, lastOp>>

NextAlign == \E value \in AlignInputs, alignment \in Alignments : AlignValue(value, alignment)

SpecAlign == InitColsSpec /\ [][NextAlign]_vars

\* C29: what align_value(v, a) returned is the least multiple of a that is
\* >= v, and v itself when v is a multiple of a; and the three values of the
\* unit tests.
C29_AlignValueLeastMultiple ==
    LET v == align_args[1]
        a == align_args[2]
    IN /\ align_result % a = 0
       /\ align_result >= v
       /\ \A m \in v..align_result : m % a = 0 => m = align_result
       /\ v % a = 0 => align_result = v
       /\ align_value(35, 8) = 40
       /\ align_value(8, 8) = 8
       /\ align_value(16, 8) = 16

\* An unaligned value at the top of usize was rounded up to the last multiple
\* of 16 there is.
C29_Witness ==
    /\ align_args = <<UsizeMax - 30, 16>>
    /\ align_result = UsizeMax - 15

(***************************************************************************)
(* InputState on its own: SpecInput feeds it events.                        *)
(***************************************************************************)
\* The keys A, B and Escape and the buttons Left and Middle get events.
EventKeys == {0, 1, 42}

EventButtons == {0, 2}

Positions == {<<1, 1>>, <<2, 3>>}

Events ==
    {KeyDown(k) : k \in EventKeys} \cup {KeyUp(k) : k \in EventKeys}
        \cup {MouseButtonDown(b) : b \in EventButtons}
        \cup {MouseButtonUp(b) : b \in EventButtons}
        \cup {MouseMotion(p) : p \in Positions}

\* input_state.handle_input(e).
HandleInput(e) ==
    /\ input_state' = handle_input(input_state, e)
    /\ UNCHANGED <<components, shared_resources, next_index, live, defined, sysVars, bitVars,
                   align_args, align_result, archVars, panicked, lastOp>>

NextInput == \E e \in Events : HandleInput(e)

SpecInput == InitColsSpec /\ [][NextInput]_vars

\* Every query about a key or a mouse button.
StateQueries ==
    {KeyDown(k) : k \in 0..(KeyCount - 1)} \cup {KeyUp(k) : k \in 0..(KeyCount - 1)}
        \cup {MouseButtonDown(b) : b \in 0..(ButtonCount - 1)}
        \cup {MouseButtonUp(b) : b \in 0..(ButtonCount - 1)}

\* q asks about the key or the button that event e names.
SameControl(q, e) ==
    /\ q.arg = e.arg
    /\ \/ {q.kind, e.kind} \subseteq {"KeyDown", "KeyUp"}
       \/ {q.kind, e.kind} \subseteq {"MouseButtonDown", "MouseButtonUp"}

\* C30: on every handle_input(e) step, was(q) afterwards is what is(q) was
\* before, for every key and button query q, and is(q) changes, if at all,
\* only for the key or button e names; so that a mouse motion too overwrites
\* the previous-state snapshot and changes no key or button.
C30_InputSnapshot ==
    [][\A e \in Events :
          HandleInput(e) =>
              \A q \in StateQueries :
                  /\ was(input_state', q) = is(input_state, q)
                  /\ is(input_state', q) # is(input_state, q) => SameControl(q, e)
                  /\ e.kind = "MouseMotion" =>
                         /\ is(input_state', q) = is(input_state, q)
                         /\ is(input_state', e)]_vars

\* After a key press and a button press, a mouse motion came: the snapshot now
\* shows both as held already, the mouse as moved.
C30_Witness ==
    /\ is(input_state, KeyDown(42))
    /\ was(input_state, KeyDown(42))
    /\ is(input_state, MouseButtonDown(2))
    /\ was(input_state, MouseButtonDown(2))
    /\ is(input_state, MouseMotion(<<0, 0>>))
    /\ input_state.last_mouse_position = <<2, 3>>
    /\ ~is(input_state, KeyDown(0))

====
